---- MODULE Spec2Model ----
(***************************************************************************)
(* Telemetry ingestion and threshold-control service of the bee hive       *)
(* monitor, with the LVD controller that applies the thresholds.           *)
(*                                                                         *)
(* Two backends of the repository are modelled, one per deployment:        *)
(*   "routes" : backend/routes/*.js + the receive handler + db/schema.sql  *)
(*   "index"  : backend/index.js (PostgreSQL variant, lines 1-448)         *)
(*                                                                         *)
(* Units: temperatures sent by a device are in thousandths of a degree,    *)
(* stored temperatures (DECIMAL(5,2)) in hundredths; voltages in           *)
(* hundredths of a volt; time in seconds.                                  *)
(***************************************************************************)
EXTENDS Integers, Sequences, FiniteSets, TLC

VARIABLES
    backend,     \* which backend is deployed
    hives,       \* table hives: id -> [name, api_key, is_active]
    readings,    \* table readings, in insertion order (row id = position)
    lvdReadings, \* table lvd_readings (index backend: lvd_status), insertion order
    settings,    \* table lvd_settings, in insertion order
    now,         \* the database clock, NOW()
    rx,          \* in-flight receive requests, per client
    put,         \* in-flight PUT /lvd/settings and regenerate-key requests, per operator
    requests,    \* number of PUT /lvd/settings requests received so far
    resp,        \* the last response sent by the backend
    dpc,         \* LVD controller: position in loop()
    voltage,     \* LVD controller: the last battery voltage sample
    relayState,  \* LVD controller: TRUE = relay ON (hives powered)
    disconnectVoltage,  \* LVD controller: cached thresholds
    reconnectVoltage,
    lvdEnabled,
    attempts,    \* LVD controller: the attempts counter of connectWiFi()
    sensor,      \* sensor node: position in loop() and its attempts counter
    users,       \* table users: the usernames, in insertion order
    SETUP_KEY,   \* process.env.SETUP_KEY of the server
    reg          \* in-flight POST /api/auth/register requests, per client

authVars == <<users, SETUP_KEY, reg>>

deviceVars == <<dpc, voltage, relayState, disconnectVoltage, reconnectVoltage, lvdEnabled,
                attempts, sensor>>

vars == <<backend, hives, readings, lvdReadings, settings, now, rx, put, requests, resp,
          deviceVars, authVars>>

----------------------------------------------------------------------------
(* Bounds *)

NumHives    == 2
NumClients  == 1
NumOperators == 2
MaxUsers    == 2
MaxPuts     == 2
MaxReadings == 2
MaxTime     == 700
MaxLvdReadings == 2
MaxChart    == 405

HiveIds == 1..NumHives
Clients == 1..NumClients
Operators == 1..NumOperators

----------------------------------------------------------------------------
(* Values *)

ABSENT == "<undefined>"

\* the names of the seeded hives
SeedName(h) == IF h = 1 THEN "Alpha" ELSE "Hive" \o ToString(h)

\* api_key values a request can carry
SeedKey(h)  == IF h = 1 THEN "alpha_abc" ELSE "hive_" \o ToString(h)
RequestKeys == {ABSENT, "", "not_a_real_key"} \cup {SeedKey(h) : h \in HiveIds}

\* data.temp as sent: absent, not a number, or a number (thousandths)
TempNumbers == {-40001, -40000, 0, 34567, 85000, 200000}
RequestTemps ==
    {[kind |-> "absent", v |-> 0], [kind |-> "nan", v |-> 0]}
        \cup {[kind |-> "num", v |-> t] : t \in TempNumbers}

TEMP_MIN == -40000
TEMP_MAX == 85000

NullValue == [kind |-> "null", v |-> 0]
NumValue(c) == [kind |-> "num", v |-> c]

\* A DECIMAL(5,2) or DECIMAL(4,2) column rounds to two decimals, half away
\* from zero: thousandths in, hundredths out.
Decimal52(t) ==
    IF t >= 0 THEN (t + 5) \div 10 ELSE -((-t + 5) \div 10)

\* JavaScript `!x` for an api_key
Falsy(k) == k \in {ABSENT, ""}

\* parseFloat(data.temp) with the `!== undefined` guard
ParseTemp(t) ==
    IF t.kind = "absent" THEN [kind |-> "null", v |-> 0]
    ELSE IF t.kind = "nan" THEN [kind |-> "nan", v |-> 0]
    ELSE t

\* The optional fields of a reading: hdc_temp, humidity, weight, each absent
\* or a number (thousandths)
Absent == [kind |-> "absent", v |-> 0]
OptionalFields ==
    [hdc_temp : {Absent, [kind |-> "num", v |-> 30125]},
     humidity : {Absent, [kind |-> "num", v |-> 55000]},
     weight   : {Absent, [kind |-> "num", v |-> 35500]}]
NoOptional == [hdc_temp |-> Absent, humidity |-> Absent, weight |-> Absent]

\* data.x !== undefined ? parseFloat(data.x) : null, as the column stores it
ParseOptional(o) ==
    IF o.kind = "num" THEN NumValue(Decimal52(o.v)) ELSE NullValue

\* x || null, as the column stores it
OrNull(o) ==
    IF o.kind = "num" /\ o.v # 0 THEN NumValue(Decimal52(o.v)) ELSE NullValue

----------------------------------------------------------------------------
(* Policy store.  The routes backend holds lvd_enabled as a boolean; the   *)
(* index backend row holds "true", "false" or "absent" (NULL), as sent.    *)

DefaultSettings(b) ==
    IF b = "routes"
    THEN [disconnect_volt |-> 330, reconnect_volt |-> 360, lvd_enabled |-> TRUE]
    ELSE [disconnect_volt |-> 330, reconnect_volt |-> 350, lvd_enabled |-> "true"]

----------------------------------------------------------------------------
(* Initial state: the schema applied and the hives seeded.                 *)
(* is_active is written by no route; the operator sets it in the database, *)
(* so both values are drawn.  index.js seeds the policy row itself; the    *)
(* routes backend relies on db/schema.sql and handles a table without a    *)
(* row, so both are drawn.  The controller starts as setup() leaves it.    *)
(* The sample reading per hive and the sample lvd_status row that          *)
(* initDatabase of index.js adds to empty tables are left out: the tables  *)
(* start empty in both backends.  The schema seeds the user admin and the  *)
(* register route provides for a table without users, so both are drawn;   *)
(* SETUP_KEY is set in the environment of the server or not.               *)

Idle == [pc |-> "idle"]

\* the users table as db/schema.sql seeds it, in a deployment without SETUP_KEY
SeededUsers == users = <<"admin">> /\ SETUP_KEY = ABSENT

Init ==
    /\ backend \in {"routes", "index"}
    /\ \E act \in [HiveIds -> BOOLEAN] :
          hives = [h \in HiveIds |->
                      [name |-> SeedName(h), api_key |-> SeedKey(h), is_active |-> act[h]]]
    /\ readings = <<>>
    /\ lvdReadings = <<>>
    /\ settings \in IF backend = "routes"
                    THEN {<<>>, <<DefaultSettings(backend)>>}
                    ELSE {<<DefaultSettings(backend)>>}
    /\ now = 0
    /\ rx = [c \in Clients |-> Idle]
    /\ put = [p \in Operators |-> Idle]
    /\ requests = 0
    /\ resp = [op |-> "none", status |-> 0]
    /\ dpc = "loop"
    /\ voltage = 0
    /\ relayState = TRUE
    /\ disconnectVoltage = 330
    /\ reconnectVoltage = 360
    /\ lvdEnabled = TRUE
    /\ attempts = 0
    /\ sensor = [pc |-> "loop", attempts |-> 0, httpCode |-> "none"]
    /\ users \in {<<>>, <<"admin">>}
    /\ SETUP_KEY \in {ABSENT, "setup-secret"}
    /\ reg = [c \in Clients |-> Idle]

----------------------------------------------------------------------------
(* Reading store queries *)

RowsOf(h) == {i \in 1..Len(readings) : readings[i].hive_id = h}

\* SELECT * FROM readings WHERE hive_id = h ORDER BY recorded_at DESC LIMIT 1
\* The order of rows with equal recorded_at is not determined by the query:
\* every row of h with the greatest recorded_at is a possible answer.
LatestCandidates(h) ==
    {i \in RowsOf(h) : \A j \in RowsOf(h) : readings[j].recorded_at <= readings[i].recorded_at}

ONLINE_SECONDS == 600

\* mutant: a reading exactly 600 seconds old still counts as online
IsOnlineInclusive(i) ==
    IF i = 0 THEN FALSE ELSE (now - readings[i].recorded_at) <= ONLINE_SECONDS

\* hive.is_online for a latest row i (0: no reading)
IsOnline(i) ==
    IF i = 0 THEN FALSE ELSE (now - readings[i].recorded_at) < ONLINE_SECONDS

\* SELECT id FROM hives WHERE api_key = $1 AND is_active = true
ActiveHiveByKey(key) == {h \in HiveIds : hives[h].api_key = key /\ hives[h].is_active}

\* SELECT id FROM hives WHERE api_key = $1
HiveByKey(key) == {h \in HiveIds : hives[h].api_key = key}

\* mutant: an identical reading is stored once
InsertReadingDedup(rows, row) ==
    IF \E i \in DOMAIN rows : rows[i] = row THEN rows ELSE Append(rows, row)

\* INSERT INTO readings: the table has no unique constraint besides the id
InsertReading(rows, row) == Append(rows, row)

InFlight == Cardinality({c \in Clients : rx[c].pc # "idle"})

----------------------------------------------------------------------------
(* Receive handler (routes backend): POST /api/receive *)

ReceiveError(op, req, code, msg) ==
    [op |-> op, status |-> code, message |-> msg, req |-> req, settings |-> {}]

\* From the request up to the await of the INSERT: key check, hive lookup,
\* temperature validation.
ReceiveLookup(c, key, t, opt) ==
    /\ backend = "routes"
    /\ rx[c].pc = "idle"
    /\ Len(readings) + InFlight < MaxReadings
    /\ LET req  == [api_key |-> key, temp |-> t, opt |-> opt]
           temp == ParseTemp(t)
       IN  IF Falsy(key)
           THEN /\ resp' = ReceiveError("receive", req, 400, "API key required")
                /\ rx' = rx
           ELSE IF ActiveHiveByKey(key) = {}
           THEN /\ resp' = ReceiveError("receive", req, 401, "Invalid API key")
                /\ rx' = rx
           ELSE IF temp.kind \in {"null", "nan"}
           THEN /\ resp' = ReceiveError("receive", req, 400, "Temperature required")
                /\ rx' = rx
           ELSE IF temp.v < TEMP_MIN \/ temp.v > TEMP_MAX
           THEN /\ resp' = ReceiveError("receive", req, 400, "Temperature out of range")
                /\ rx' = rx
           ELSE /\ rx' = [rx EXCEPT ![c] =
                            [pc |-> "insert", req |-> req,
                             hiveId |-> CHOOSE h \in ActiveHiveByKey(key) : TRUE,
                             temp |-> temp.v]]
                /\ resp' = resp
    /\ UNCHANGED <<authVars, lvdReadings, deviceVars, put, requests, backend, hives, readings, settings, now>>

\* INSERT INTO readings ... VALUES (hiveId, temp, ..., NOW()) RETURNING id,
\* then the 200 response.
ReceiveInsert(c) ==
    /\ backend = "routes"
    /\ rx[c].pc = "insert"
    /\ readings' = InsertReading(readings,
                      [hive_id |-> rx[c].hiveId,
                       temp |-> NumValue(Decimal52(rx[c].temp)),
                       hdc_temp |-> ParseOptional(rx[c].req.opt.hdc_temp),
                       humidity |-> ParseOptional(rx[c].req.opt.humidity),
                       weight |-> ParseOptional(rx[c].req.opt.weight),
                       recorded_at |-> now])
    /\ resp' = [op |-> "receive", status |-> 200, message |-> "Reading saved",
                req |-> rx[c].req, id |-> Len(readings) + 1,
                hive |-> rx[c].hiveId, settings |-> {}]
    /\ rx' = [rx EXCEPT ![c] = Idle]
    /\ UNCHANGED <<authVars, lvdReadings, deviceVars, put, requests, backend, hives, settings, now>>

\* the INSERT of the receive handler throws: catch, 500
ReceiveInsertFails(c) ==
    /\ backend = "routes"
    /\ rx[c].pc = "insert"
    /\ resp' = ReceiveError("receive", rx[c].req, 500, "Server error")
    /\ rx' = [rx EXCEPT ![c] = Idle]
    /\ UNCHANGED <<authVars, lvdReadings, deviceVars, put, requests, backend, hives, readings,
                   settings, now>>

----------------------------------------------------------------------------
(* POST /api/readings (index backend) *)

\* JavaScript truthiness of a JSON body field: undefined and 0 are falsy, a
\* non-numeric string is truthy.
Truthy(t) == t.kind = "nan" \/ (t.kind = "num" /\ t.v # 0)

\* temp || temperature || null
TempValue(temp, temperature) ==
    IF Truthy(temp) THEN temp
    ELSE IF Truthy(temperature) THEN temperature
    ELSE NullValue

AliasTemps == {[kind |-> "absent", v |-> 0], [kind |-> "num", v |-> 34567]}

PostReadings(key, temp, temperature, opt) ==
    /\ backend = "index"
    /\ Len(readings) < MaxReadings
    /\ LET req == [api_key |-> key, temp |-> temp, temperature |-> temperature,
                   opt |-> opt]
           tempValue == TempValue(temp, temperature)
       IN  IF Falsy(key)
           THEN /\ resp' = ReceiveError("postReadings", req, 400, "API key required")
                /\ readings' = readings
           ELSE IF HiveByKey(key) = {}
           THEN /\ resp' = ReceiveError("postReadings", req, 401, "Invalid API key")
                /\ readings' = readings
           ELSE IF tempValue.kind = "nan"
           THEN \* the INSERT fails on a non-numeric value: catch, 500
                /\ resp' = ReceiveError("postReadings", req, 500, "Server error")
                /\ readings' = readings
           ELSE LET hive == CHOOSE h \in HiveByKey(key) : TRUE
                IN  /\ readings' = InsertReading(readings,
                          [hive_id |-> hive,
                           temp |-> IF tempValue.kind = "num"
                                    THEN NumValue(Decimal52(tempValue.v))
                                    ELSE NullValue,
                           hdc_temp |-> NullValue,
                           humidity |-> OrNull(opt.humidity),
                           weight |-> OrNull(opt.weight),
                           recorded_at |-> now])
                    /\ resp' = [op |-> "postReadings", status |-> 200,
                                message |-> "Reading saved", req |-> req,
                                id |-> Len(readings) + 1,
                                hive |-> hive, settings |-> {}]
    /\ UNCHANGED <<authVars, lvdReadings, deviceVars, put, requests, backend, hives, settings, now, rx>>

----------------------------------------------------------------------------
(* Query service (routes backend) *)

ActiveHives == {h \in HiveIds : hives[h].is_active}

\* One possible answer of the latest-reading query for h (0: no row)
LatestChoices(h) == IF RowsOf(h) = {} THEN {0} ELSE LatestCandidates(h)

\* optionalAuth of middleware/auth.js, which the routes import: req.user is
\* set when the request carries a valid operator token
optionalAuth(tok) == tok = "operator"

\* mutant: the api_key stays in the row for every caller
HiveViewKeyKept(h, i, user) ==
    [id |-> h, name |-> hives[h].name, api_key |-> hives[h].api_key,
     latest |-> i, is_online |-> IsOnline(i)]

\* the row of hive h as the hive routes send it, with its latest reading i
\* and its online flag: if (!req.user) delete hive.api_key
HiveView(h, i, user) ==
    IF user
    THEN [id |-> h, name |-> hives[h].name, api_key |-> hives[h].api_key,
          latest |-> i, is_online |-> IsOnline(i)]
    ELSE [id |-> h, name |-> hives[h].name, latest |-> i, is_online |-> IsOnline(i)]

\* GET /api/hives
GetHives(tok) ==
    /\ backend = "routes"
    /\ \E pick \in [ActiveHives -> 0..Len(readings)] :
          /\ \A h \in ActiveHives : pick[h] \in LatestChoices(h)
          /\ resp' = [op |-> "getHives", status |-> 200, tok |-> tok,
                      hives |-> [h \in ActiveHives |->
                                   HiveView(h, pick[h], optionalAuth(tok))]]
    /\ UNCHANGED <<authVars, lvdReadings, deviceVars, put, requests, backend, hives, readings, settings, now, rx>>

\* the range parameter of a series query and its window, in seconds
Ranges == {"24h", "7d", "30d"}
DAY == 86400
WindowSeconds(range) ==
    IF range = "7d" THEN 7 * DAY ELSE IF range = "30d" THEN 30 * DAY ELSE DAY

\* the answers ORDER BY recorded_at can give for the rows S: every
\* arrangement of S by recorded_at, ascending or descending; rows with the
\* same recorded_at come in any order
OrderedBy(S, ascending) ==
    {f \in [1..Cardinality(S) -> S] :
        /\ \A i, j \in 1..Cardinality(S) : i # j => f[i] # f[j]
        /\ \A i, j \in 1..Cardinality(S) :
              i < j => IF ascending
                       THEN readings[f[i]].recorded_at <= readings[f[j]].recorded_at
                       ELSE readings[f[i]].recorded_at >= readings[f[j]].recorded_at}

\* values.reduce((a, b) => a + b, 0)
RECURSIVE SumSeq(_)
SumSeq(vals) == IF vals = <<>> THEN 0 ELSE Head(vals) + SumSeq(Tail(vals))

\* Math.min(...values), Math.max(...values)
MinSeq(vals) == CHOOSE x \in {vals[k] : k \in DOMAIN vals} :
                    \A k \in DOMAIN vals : x <= vals[k]
MaxSeq(vals) == CHOOSE x \in {vals[k] : k \in DOMAIN vals} :
                    \A k \in DOMAIN vals : x >= vals[k]

\* mutant: a NULL column counts as 0
PresentNullAsZero(series, column) ==
    [k \in DOMAIN series |-> IF readings[series[k]][column].kind = "num"
                             THEN readings[series[k]][column].v ELSE 0]

\* rows.map(r => parseFloat(r.column)).filter(x => !isNaN(x)): the values of
\* the column in the rows of the series where it is not NULL
Present(series, column) ==
    LET vals == [k \in DOMAIN series |-> readings[series[k]][column]]
        nums == SelectSeq(vals, LAMBDA x : x.kind = "num")
    IN  [k \in DOMAIN nums |-> nums[k].v]

\* an average is kept as the sum and the number of values it divides by
Average(vals) ==
    IF Len(vals) # 0 THEN [kind |-> "avg", sum |-> SumSeq(vals), n |-> Len(vals)]
    ELSE NullValue

\* hive.stats of GET /api/hives/:id
HiveStats(series) ==
    [temp |-> [avg |-> Average(Present(series, "temp")),
               min |-> IF Len(Present(series, "temp")) # 0
                       THEN NumValue(MinSeq(Present(series, "temp"))) ELSE NullValue,
               max |-> IF Len(Present(series, "temp")) # 0
                       THEN NumValue(MaxSeq(Present(series, "temp"))) ELSE NullValue],
     humidity |-> [avg |-> Average(Present(series, "humidity"))],
     weight   |-> [avg |-> Average(Present(series, "weight"))],
     readings_count |-> Len(series)]

\* GET /api/hives/:id: the hive with its latest reading, its online flag and
\* the series of the window, oldest first
GetHive(tok, id, range) ==
    /\ backend = "routes"
    /\ IF id \notin HiveIds
       THEN resp' = [op |-> "getHive", status |-> 404, id |-> id, tok |-> tok]
       ELSE \E i \in LatestChoices(id),
               series \in OrderedBy({r \in RowsOf(id) :
                                       readings[r].recorded_at
                                           >= now - WindowSeconds(range)}, TRUE) :
              resp' = [op |-> "getHive", status |-> 200, id |-> id, tok |-> tok,
                       hive |-> HiveView(id, i, optionalAuth(tok)), range |-> range,
                       readings |-> series, readings_count |-> Len(series),
                       stats |-> HiveStats(series)]
    /\ UNCHANGED <<authVars, lvdReadings, deviceVars, put, requests, backend, hives, readings, settings, now, rx>>

\* the hive_id parameter when the query does not carry one
NoHiveId == 0

\* SUM(column) over the rows S, none of them NULL in the column
RECURSIVE SumRows(_, _)
SumRows(S, column) ==
    IF S = {} THEN 0
    ELSE LET r == CHOOSE x \in S : TRUE
         IN  readings[r][column].v + SumRows(S \ {r}, column)

\* AVG(column) over the rows S: NULL values are ignored, no value gives NULL
SqlAvg(S, column) ==
    LET P == {r \in S : readings[r][column].kind = "num"}
    IN  IF P = {} THEN NullValue
        ELSE [kind |-> "avg", sum |-> SumRows(P, column), n |-> Cardinality(P)]

\* MIN(column) and MAX(column) over the rows S
SqlMin(S, column) ==
    LET P == {r \in S : readings[r][column].kind = "num"}
    IN  IF P = {} THEN NullValue
        ELSE NumValue(CHOOSE x \in {readings[r][column].v : r \in P} :
                         \A r \in P : x <= readings[r][column].v)
SqlMax(S, column) ==
    LET P == {r \in S : readings[r][column].kind = "num"}
    IN  IF P = {} THEN NullValue
        ELSE NumValue(CHOOSE x \in {readings[r][column].v : r \in P} :
                         \A r \in P : x >= readings[r][column].v)

\* GET /api/readings/stats: the aggregates of the readings of the last
\* `hours` hours, of one hive when hive_id is given, else of all hives
GetStats(hive_id, hours) ==
    /\ backend = "routes"
    /\ LET S == {r \in DOMAIN readings :
                    /\ readings[r].recorded_at >= now - hours * 3600
                    /\ hive_id # NoHiveId => readings[r].hive_id = hive_id}
       IN  resp' = [op |-> "getStats", status |-> 200, id |-> hive_id,
                    hours |-> hours,
                    stats |-> [total_readings |-> Cardinality(S),
                               avg_temp |-> SqlAvg(S, "temp"),
                               min_temp |-> SqlMin(S, "temp"),
                               max_temp |-> SqlMax(S, "temp"),
                               avg_humidity |-> SqlAvg(S, "humidity"),
                               avg_weight |-> SqlAvg(S, "weight")]]
    /\ UNCHANGED <<authVars, lvdReadings, deviceVars, put, requests, backend, hives, readings,
                   settings, now, rx>>

\* the limit parameter of GET /api/readings
ListLimits == {1, 100}

\* GET /api/readings: SELECT r.*, h.name AS hive_name ... ORDER BY
\* r.recorded_at DESC LIMIT $n, of one hive when hive_id is given
ListReadings(tok, hive_id, limit) ==
    /\ backend = "routes"
    /\ LET S == {r \in DOMAIN readings :
                    hive_id # NoHiveId => readings[r].hive_id = hive_id}
       IN  \E rows \in OrderedBy(S, FALSE) :
              LET n == IF Len(rows) < limit THEN Len(rows) ELSE limit
              IN  resp' = [op |-> "listReadings", status |-> 200, tok |-> tok,
                           count |-> n,
                           readings |-> [k \in 1..n |->
                               [id |-> rows[k],
                                hive_name |-> hives[readings[rows[k]].hive_id].name]]]
    /\ UNCHANGED <<authVars, lvdReadings, deviceVars, put, requests, backend, hives, readings,
                   settings, now, rx>>

----------------------------------------------------------------------------
(* Chart series.  A series is a sequence of positions 0, 1, ... in the      *)
(* chronological order of the readings the query selected.                  *)

MAX_POINTS == 200
CHART_SLICE == 50

\* the n rows of ORDER BY r.recorded_at ASC
Chronological(n) == [k \in 1..n |-> k - 1]

\* the n rows of ORDER BY r.recorded_at DESC
NewestFirst(n) == [k \in 1..n |-> n - k]

\* if (readings.length > 200) { step = Math.ceil(readings.length / 200);
\* readings = readings.filter((_, i) => i % step === 0) }
Downsample(rows) ==
    IF Len(rows) > MAX_POINTS
    THEN LET step == (Len(rows) + MAX_POINTS - 1) \div MAX_POINTS
         IN  [k \in 1..((Len(rows) - 1) \div step + 1) |-> rows[(k - 1) * step + 1]]
    ELSE rows

\* readings.slice(0, 50).reverse()
ChartData(rows) ==
    LET m == IF Len(rows) < CHART_SLICE THEN Len(rows) ELSE CHART_SLICE
    IN  [k \in 1..m |-> rows[m - k + 1]]

\* GET /api/readings/chart when the query selects n readings
GetChart(n) ==
    /\ backend = "routes"
    /\ resp' = [op |-> "getChart", status |-> 200, n |-> n,
                count |-> Len(Downsample(Chronological(n))),
                readings |-> Downsample(Chronological(n))]
    /\ UNCHANGED <<authVars, lvdReadings, deviceVars, put, requests, backend, hives, readings,
                   settings, now, rx>>

\* HiveDetail of the dashboard, when the readings request returned n
\* readings (newest first): the series it charts
HiveDetailChart(n) ==
    /\ resp' = [op |-> "hiveDetailChart", status |-> 200, n |-> n,
                readings |-> ChartData(NewestFirst(n))]
    /\ UNCHANGED <<authVars, lvdReadings, deviceVars, put, requests, backend, hives, readings,
                   settings, now, rx>>

----------------------------------------------------------------------------
(* Threshold policy store (routes backend): routes/lvd.js *)

\* SELECT * FROM lvd_settings LIMIT 1, then `rows[0] || {defaults}`.
\* Without ORDER BY any row of the table is a possible answer.
PolicyRows(s) ==
    IF s = <<>> THEN {DefaultSettings("routes")} ELSE {s[i] : i \in DOMAIN s}

\* body fields of PUT /lvd/settings (voltages in thousandths of a volt)
PutDisconnects == {[kind |-> "absent", v |-> 0], [kind |-> "nan", v |-> 0]}
                    \cup {[kind |-> "num", v |-> x] : x \in {2400, 3500, 3800}}
PutReconnects  == {[kind |-> "absent", v |-> 0]}
                    \cup {[kind |-> "num", v |-> x] : x \in {3400, 3600, 4300}}
PutEnableds    == {"absent", "true", "false"}
PutRequests ==
    [disconnect_volt : PutDisconnects, reconnect_volt : PutReconnects,
     lvd_enabled : PutEnableds]

VOLT_MIN == 2500
VOLT_MAX == 4200

\* the per-field check of lines 99-117: the field is present and not a
\* number in [2.5, 4.2]
BadVoltage(f) ==
    /\ f.kind # "absent"
    /\ \/ f.kind = "nan"
       \/ f.v < VOLT_MIN
       \/ f.v > VOLT_MAX

\* UPDATE lvd_settings SET <the supplied fields> on one row
ApplyUpdate(row, req) ==
    [disconnect_volt |-> IF req.disconnect_volt.kind = "absent"
                         THEN row.disconnect_volt
                         ELSE Decimal52(req.disconnect_volt.v),
     reconnect_volt  |-> IF req.reconnect_volt.kind = "absent"
                         THEN row.reconnect_volt
                         ELSE Decimal52(req.reconnect_volt.v),
     lvd_enabled     |-> IF req.lvd_enabled = "absent"
                         THEN row.lvd_enabled
                         ELSE req.lvd_enabled = "true"]

\* the Authorization header of a request: none, a token jwt.verify rejects,
\* a token it accepts
Tokens == {ABSENT, "forged", "operator"}

\* mutant: any bearer token is let through
authenticateTokenAnyBearer(tok) ==
    IF tok = ABSENT THEN 401 ELSE 0

\* authenticateToken of index.js: 0 when next() is called, else the status
\* sent
authenticateToken(tok) ==
    IF tok = ABSENT THEN 401
    ELSE IF tok # "operator" THEN 403
    ELSE 0

\* authenticateToken of middleware/auth.js, which the routes import: access
\* requires an operator credential (0: next() is called, else the status)
routesAuthenticateToken(tok) ==
    IF tok = "operator" THEN 0 ELSE 401

Refused(op, code, tok) ==
    [op |-> op, status |-> code, message |-> "refused", tok |-> tok]

PutError(req, msg) ==
    [op |-> "putSettings", status |-> 400, message |-> msg, req |-> req]

\* From the request up to the first await: the middleware, then validation
\* of the supplied
\* fields.  `seen` records the policy readable when the request arrived; the
\* handler does not read it (history field, used by the properties only).
PutStart(p, tok, req) ==
    /\ backend = "routes"
    /\ put[p].pc = "idle"
    /\ requests < MaxPuts
    /\ requests' = requests + 1
    /\ IF routesAuthenticateToken(tok) # 0
       THEN /\ resp' = Refused("putSettings", routesAuthenticateToken(tok), tok)
            /\ put' = put
       ELSE IF BadVoltage(req.disconnect_volt)
       THEN /\ resp' = PutError(req, "Disconnect voltage must be between 2.5V and 4.2V")
            /\ put' = put
       ELSE IF BadVoltage(req.reconnect_volt)
       THEN /\ resp' = PutError(req, "Reconnect voltage must be between 2.5V and 4.2V")
            /\ put' = put
       ELSE IF /\ req.disconnect_volt.kind = "absent"
               /\ req.reconnect_volt.kind = "absent"
               /\ req.lvd_enabled = "absent"
       THEN /\ resp' = PutError(req, "No settings to update")
            /\ put' = put
       ELSE /\ \E seen \in PolicyRows(settings) :
                 put' = [put EXCEPT ![p] = [pc |-> "check", req |-> req, seen |-> seen,
                                            tok |-> tok]]
            /\ resp' = resp
    /\ UNCHANGED <<authVars, lvdReadings, deviceVars, backend, hives, readings, settings, now, rx>>

\* SELECT id FROM lvd_settings LIMIT 1
PutCheck(p) ==
    /\ put[p].pc = "check"
    /\ put' = [put EXCEPT ![p].pc = IF settings = <<>> THEN "insert" ELSE "update"]
    /\ UNCHANGED <<authVars, lvdReadings, deviceVars, backend, hives, readings, settings, now, rx, requests, resp>>

\* INSERT INTO lvd_settings ... VALUES (3.30, 3.60, true)
PutInsert(p) ==
    /\ put[p].pc = "insert"
    /\ settings' = Append(settings, DefaultSettings("routes"))
    /\ put' = [put EXCEPT ![p].pc = "update"]
    /\ UNCHANGED <<authVars, lvdReadings, deviceVars, backend, hives, readings, now, rx, requests, resp>>

\* UPDATE lvd_settings SET ... WHERE id = (SELECT id FROM lvd_settings LIMIT 1)
\* RETURNING *, then the 200 response
PutUpdate(p) ==
    /\ put[p].pc = "update"
    /\ \E i \in DOMAIN settings :
          /\ settings' = [settings EXCEPT ![i] = ApplyUpdate(settings[i], put[p].req)]
          /\ resp' = [op |-> "putSettings", status |-> 200, message |-> "Settings updated",
                      req |-> put[p].req, tok |-> put[p].tok,
                      settings |-> {settings'[i]}]
    /\ put' = [put EXCEPT ![p] = Idle]
    /\ UNCHANGED <<authVars, lvdReadings, deviceVars, backend, hives, readings, now, rx, requests>>

----------------------------------------------------------------------------
(* LVD status and policy reads (routes backend): routes/lvd.js.            *)
(* Battery voltages are in hundredths of a volt, as the controller sends   *)
(* them (two decimals).                                                     *)

\* Voltages v (hundredths) where ((v - 3.0) / (4.2 - 3.0)) * 100 is a tie in
\* exact arithmetic and the double result falls just below it
FloatTiesDown == {303, 309, 315, 321, 327, 351, 357, 363, 369, 375, 405, 417}

\* batteryPercent(voltage): Math.round of the double, clamped to [0, 100]
batteryPercent(v) ==
    LET exact   == ((v - 300) * 10 + 6) \div 12
        rounded == IF v \in FloatTiesDown THEN exact - 1 ELSE exact
    IN  IF rounded < 0 THEN 0 ELSE IF rounded > 100 THEN 100 ELSE rounded

\* body fields of POST /lvd
LvdVoltages ==
    {Absent, [kind |-> "nan", v |-> 0]}
        \cup {[kind |-> "num", v |-> x] : x \in {-1, 303, 330, 500, 501}}
LvdStatuses == {"absent", "1", "0"}

LVD_ONLINE_SECONDS == 300

\* SELECT * FROM lvd_readings ORDER BY recorded_at DESC LIMIT 1 (0: no row)
LatestLvd ==
    IF lvdReadings = <<>> THEN {0}
    ELSE {i \in DOMAIN lvdReadings :
            \A j \in DOMAIN lvdReadings :
                lvdReadings[j].recorded_at <= lvdReadings[i].recorded_at}

LvdError(op, code, msg) == [op |-> op, status |-> code, message |-> msg]

\* the body of a POST /api/lvd, kept with its response
LvdRequest(volt, lvdStatus) == [req |-> [voltage |-> volt, lvd_status |-> lvdStatus]]

\* POST /api/lvd: the controller reports its status, the policy is echoed
PostLvd(volt, lvdStatus) ==
    /\ backend = "routes"
    /\ Len(lvdReadings) < MaxLvdReadings
    /\ IF volt.kind = "absent"
       THEN /\ resp' = LvdError("postLvd", 400, "Voltage required") @@ LvdRequest(volt, lvdStatus)
            /\ lvdReadings' = lvdReadings
       ELSE IF volt.kind = "nan" \/ volt.v < 0 \/ volt.v > 500
       THEN /\ resp' = LvdError("postLvd", 400, "Invalid voltage") @@ LvdRequest(volt, lvdStatus)
            /\ lvdReadings' = lvdReadings
       ELSE /\ lvdReadings' = Append(lvdReadings,
                                [battery_voltage |-> volt.v,
                                 battery_percent |-> batteryPercent(volt.v),
                                 lvd_status |-> (lvdStatus = "1"),
                                 recorded_at |-> now])
            /\ \E row \in PolicyRows(settings) :
                  resp' = [op |-> "postLvd", status |-> 200,
                           message |-> "Reading saved",
                           battery_percent |-> batteryPercent(volt.v),
                           policy |-> row] @@ LvdRequest(volt, lvdStatus)
    /\ UNCHANGED <<authVars, deviceVars, put, requests, backend, hives, readings, settings, now, rx>>

\* POST /api/lvd when the INSERT throws: catch, 500
PostLvdInsertFails(volt, lvdStatus) ==
    /\ backend = "routes"
    /\ volt.kind = "num" /\ volt.v >= 0 /\ volt.v <= 500
    /\ resp' = LvdError("postLvd", 500, "Server error") @@ LvdRequest(volt, lvdStatus)
    /\ UNCHANGED <<authVars, lvdReadings, deviceVars, put, requests, backend, hives, readings,
                   settings, now, rx>>

\* POST /api/lvd when the INSERT succeeds and the SELECT of the settings
\* that follows it throws: catch, 500
PostLvdEchoFails(volt, lvdStatus) ==
    /\ backend = "routes"
    /\ Len(lvdReadings) < MaxLvdReadings
    /\ volt.kind = "num" /\ volt.v >= 0 /\ volt.v <= 500
    /\ lvdReadings' = Append(lvdReadings,
                         [battery_voltage |-> volt.v,
                          battery_percent |-> batteryPercent(volt.v),
                          lvd_status |-> (lvdStatus = "1"),
                          recorded_at |-> now])
    /\ resp' = LvdError("postLvd", 500, "Server error") @@ LvdRequest(volt, lvdStatus)
    /\ UNCHANGED <<authVars, deviceVars, put, requests, backend, hives, readings, settings, now, rx>>

\* GET /api/lvd/settings
GetSettings(tok) ==
    /\ backend = "routes"
    /\ \E row \in PolicyRows(settings) :
          resp' = [op |-> "getSettings", status |-> 200, policy |-> row, tok |-> tok]
    /\ UNCHANGED <<authVars, lvdReadings, deviceVars, put, requests, backend, hives, readings,
                   settings, now, rx>>

\* GET /api/lvd: the latest status with its online flag, and the policy
GetLvd ==
    /\ backend = "routes"
    /\ \E i \in LatestLvd, row \in PolicyRows(settings) :
          resp' = [op |-> "getLvd", status |-> 200,
                   lvd |-> [latest |-> i,
                            is_online |-> IF i = 0 THEN FALSE
                                          ELSE now - lvdReadings[i].recorded_at
                                                  < LVD_ONLINE_SECONDS,
                            battery_percent |->
                                IF i = 0 THEN -1
                                ELSE batteryPercent(lvdReadings[i].battery_voltage)],
                   policy |-> row]
    /\ UNCHANGED <<authVars, lvdReadings, deviceVars, put, requests, backend, hives, readings,
                   settings, now, rx>>

----------------------------------------------------------------------------
(* PUT /api/lvd/settings (index backend) *)

\* a column left NULL because the body did not carry the field
NullVolt == -1

\* UPDATE lvd_settings SET disconnect_voltage = $1, reconnect_voltage = $2,
\* lvd_enabled = $3 on every row, with the body fields as they came.
IndexPutSettings(tok, req) ==
    /\ backend = "index"
    /\ requests < MaxPuts
    /\ requests' = requests + 1
    /\ IF authenticateToken(tok) # 0
       THEN /\ settings' = settings
            /\ resp' = Refused("putSettings", authenticateToken(tok), tok)
       ELSE IF req.disconnect_volt.kind = "nan"
       THEN \* the UPDATE fails on a non-numeric value: catch, 500
            /\ settings' = settings
            /\ resp' = [op |-> "putSettings", status |-> 500,
                        message |-> "Server error", req |-> req]
       ELSE /\ settings' =
                 [i \in DOMAIN settings |->
                    [disconnect_volt |-> IF req.disconnect_volt.kind = "absent"
                                         THEN NullVolt
                                         ELSE Decimal52(req.disconnect_volt.v),
                     reconnect_volt  |-> IF req.reconnect_volt.kind = "absent"
                                         THEN NullVolt
                                         ELSE Decimal52(req.reconnect_volt.v),
                     lvd_enabled     |-> req.lvd_enabled]]
            /\ resp' = [op |-> "putSettings", status |-> 200,
                        message |-> "LVD settings updated", req |-> req, tok |-> tok]
    /\ UNCHANGED <<authVars, lvdReadings, deviceVars, backend, hives, readings, now, rx, put>>

\* settingsResult.rows[0] || {}
EmptyPolicy ==
    [disconnect_volt |-> NullVolt, reconnect_volt |-> NullVolt, lvd_enabled |-> "absent"]

\* GET /api/lvd (index backend): SELECT ... ORDER BY id DESC LIMIT 1 of each
\* table
IndexGetLvd(tok) ==
    /\ backend = "index"
    /\ resp' = IF authenticateToken(tok) # 0
               THEN Refused("getLvd", authenticateToken(tok), tok)
               ELSE [op |-> "getLvd", status |-> 200,
                     lvd |-> [latest |-> Len(lvdReadings)],
                     policy |-> IF settings = <<>> THEN EmptyPolicy
                                ELSE settings[Len(settings)]]
    /\ UNCHANGED <<authVars, lvdReadings, deviceVars, put, requests, backend, hives, readings,
                   settings, now, rx>>

\* POST /api/lvd/status (index backend): the row is stored as sent
IndexPostLvdStatus(volt, lvdStatus) ==
    /\ backend = "index"
    /\ Len(lvdReadings) < MaxLvdReadings
    /\ IF volt.kind = "nan"
       THEN \* the INSERT fails on a non-numeric value: catch, 500
            /\ resp' = LvdError("postLvd", 500, "Server error")
            /\ lvdReadings' = lvdReadings
       ELSE /\ lvdReadings' = Append(lvdReadings,
                                [battery_voltage |-> IF volt.kind = "absent"
                                                     THEN NullVolt ELSE volt.v,
                                 battery_percent |-> -1,
                                 lvd_status |-> (lvdStatus = "1"),
                                 recorded_at |-> now])
            /\ resp' = [op |-> "postLvdStatus", status |-> 200]
    /\ UNCHANGED <<authVars, deviceVars, put, requests, backend, hives, readings, settings, now, rx>>

\* GET /api/readings/:hiveId (index backend): the rows newer than the start
\* of the window, ORDER BY recorded_at DESC
IndexGetReadings(tok, hiveId, range) ==
    /\ backend = "index"
    /\ IF authenticateToken(tok) # 0
       THEN resp' = Refused("getReadings", authenticateToken(tok), tok)
       ELSE \E series \in OrderedBy({r \in DOMAIN readings :
                                        /\ readings[r].hive_id = hiveId
                                        /\ readings[r].recorded_at
                                              > now - WindowSeconds(range)}, FALSE) :
              resp' = [op |-> "getReadings", status |-> 200, id |-> hiveId,
                       range |-> range, readings |-> series, tok |-> tok]
    /\ UNCHANGED <<authVars, lvdReadings, deviceVars, put, requests, backend, hives, readings,
                   settings, now, rx>>

----------------------------------------------------------------------------
(* Device registry: rename and regenerate-key (routes/hives.js, index.js) *)

\* name fields of a rename request
RenameNames == {ABSENT, "", "  ", " Queen ", "Alpha"}

\* names of 31, 32, 50 and 51 characters
Name31 == "Apiary-North-Meadow-Hive-Num-01"
Name32 == "Apiary-North-Meadow-Hive-Numb-01"
Name50 == "Apiary-North-Meadow-Orchard-Row-Seven-Hive-Numb-01"
Name51 == "Apiary-North-Meadow-Orchard-Row-Seven-Hive-Numbr-01"
LongNames == {Name31, Name32, Name50, Name51}

\* hives.name VARCHAR(50), hives.api_key VARCHAR(64)
NAME_WIDTH == 50
API_KEY_WIDTH == 64

\* name.trim()
Trim(n) == IF n = "  " THEN "" ELSE IF n = " Queen " THEN "Queen" ELSE n

\* name.toLowerCase()
toLowerCase(n) ==
    IF n = "Alpha" THEN "alpha"
    ELSE IF n = "Queen" THEN "queen"
    ELSE IF n = " Queen " THEN " queen "
    ELSE IF n = Name31 THEN "apiary-north-meadow-hive-num-01"
    ELSE IF n = Name32 THEN "apiary-north-meadow-hive-numb-01"
    ELSE IF n = Name50 THEN "apiary-north-meadow-orchard-row-seven-hive-numb-01"
    ELSE IF n = Name51 THEN "apiary-north-meadow-orchard-row-seven-hive-numbr-01"
    ELSE IF \E h \in HiveIds : n = SeedName(h)
         THEN "hive" \o ToString(CHOOSE h \in HiveIds : n = SeedName(h))
    ELSE n

\* results of crypto.randomBytes(16).toString('hex') (index.js:
\* Math.random().toString(36).substring(2, 15))
RandomSuffixes == {"3f9c", "a71e"}

\* the length of the generated suffix: 16 bytes in hex, or at most 13
\* characters of Math.random() in base 36
HEX_SUFFIX_LEN == 32
BASE36_SUFFIX_LEN == 13

\* the length of `${prefix}_${suffix}`
KeyLength(name) ==
    Len(toLowerCase(name)) + 1
        + (IF backend = "routes" THEN HEX_SUFFIX_LEN ELSE BASE36_SUFFIX_LEN)

HiveResponse(op, code, id, tok) ==
    [op |-> op, status |-> code, id |-> id, tok |-> tok]

\* PUT /api/hives/:id of routes/hives.js
PutHive(tok, id, name) ==
    /\ backend = "routes"
    /\ IF routesAuthenticateToken(tok) # 0
       THEN /\ resp' = HiveResponse("putHive", routesAuthenticateToken(tok), id, tok)
                        @@ [name |-> name]
            /\ hives' = hives
       ELSE IF name = ABSENT \/ name = "" \/ Trim(name) = ""
       THEN /\ resp' = HiveResponse("putHive", 400, id, tok) @@ [name |-> name]
            /\ hives' = hives
       ELSE IF id \notin HiveIds
       THEN /\ resp' = HiveResponse("putHive", 404, id, tok) @@ [name |-> name]
            /\ hives' = hives
       ELSE IF Len(Trim(name)) > NAME_WIDTH
       THEN \* value too long for VARCHAR(50): catch, 500
            /\ resp' = HiveResponse("putHive", 500, id, tok) @@ [name |-> name]
            /\ hives' = hives
       ELSE /\ hives' = [hives EXCEPT ![id].name = Trim(name)]
            /\ resp' = HiveResponse("putHive", 200, id, tok) @@ [name |-> name]
    /\ UNCHANGED <<authVars, lvdReadings, deviceVars, put, requests, backend, readings,
                   settings, now, rx>>

\* PUT /api/hives/:id of index.js: the UPDATE runs with the name as sent;
\* an absent name is NULL and violates NOT NULL, a name longer than the
\* column is rejected (catch, 500)
IndexPutHive(tok, id, name) ==
    /\ backend = "index"
    /\ IF authenticateToken(tok) # 0
       THEN /\ resp' = HiveResponse("putHive", authenticateToken(tok), id, tok)
                        @@ [name |-> name]
            /\ hives' = hives
       ELSE IF (name = ABSENT \/ Len(name) > NAME_WIDTH) /\ id \in HiveIds
       THEN /\ resp' = HiveResponse("putHive", 500, id, tok) @@ [name |-> name]
            /\ hives' = hives
       ELSE /\ hives' = IF id \in HiveIds
                        THEN [hives EXCEPT ![id].name = name] ELSE hives
            /\ resp' = HiveResponse("putHive", 200, id, tok) @@ [name |-> name]
    /\ UNCHANGED <<authVars, lvdReadings, deviceVars, put, requests, backend, readings,
                   settings, now, rx>>

\* POST /api/hives/:id/regenerate-key, up to the await of the UPDATE: the
\* middleware and SELECT name FROM hives WHERE id = $1
RegenLookup(p, tok, id) ==
    /\ put[p].pc = "idle"
    /\ requests < MaxPuts
    /\ requests' = requests + 1
    /\ LET auth == IF backend = "routes" THEN routesAuthenticateToken(tok)
                   ELSE authenticateToken(tok)
       IN  IF auth # 0
           THEN /\ resp' = HiveResponse("regenerateKey", auth, id, tok)
                /\ put' = put
           ELSE IF id \notin HiveIds
           THEN \* index.js reads hive.name of undefined: catch, 500
                /\ resp' = HiveResponse("regenerateKey",
                                        IF backend = "routes" THEN 404 ELSE 500, id, tok)
                /\ put' = put
           ELSE /\ put' = [put EXCEPT ![p] = [pc |-> "regen", id |-> id, tok |-> tok,
                                              name |-> hives[id].name]]
                /\ resp' = resp
    /\ UNCHANGED <<authVars, lvdReadings, deviceVars, backend, hives, readings, settings, now, rx>>

\* mutant: api_key without the UNIQUE constraint
RegenUpdateNoUnique(p, rnd) ==
    /\ put[p].pc = "regen"
    /\ hives' = [hives EXCEPT ![put[p].id].api_key =
                              toLowerCase(put[p].name) \o "_" \o rnd]
    /\ resp' = HiveResponse("regenerateKey", 200, put[p].id, put[p].tok)
                @@ [api_key |-> toLowerCase(put[p].name) \o "_" \o rnd]
    /\ put' = [put EXCEPT ![p] = Idle]
    /\ UNCHANGED <<authVars, lvdReadings, deviceVars, backend, readings, settings, now, rx, requests>>

\* the key is generated and UPDATE hives SET api_key = $1 WHERE id = $2 runs;
\* api_key is VARCHAR(64) UNIQUE: a key longer than the column, or the key
\* of another hive, makes the UPDATE fail (500)
RegenUpdate(p, rnd) ==
    /\ put[p].pc = "regen"
    /\ LET id     == put[p].id
           newKey == toLowerCase(put[p].name) \o "_" \o rnd
       IN  IF \/ KeyLength(put[p].name) > API_KEY_WIDTH
              \/ \E h \in HiveIds \ {id} : hives[h].api_key = newKey
           THEN /\ hives' = hives
                /\ resp' = HiveResponse("regenerateKey", 500, id, put[p].tok)
           ELSE /\ hives' = [hives EXCEPT ![id].api_key = newKey]
                /\ resp' = HiveResponse("regenerateKey", 200, id, put[p].tok)
                            @@ [api_key |-> newKey]
    /\ put' = [put EXCEPT ![p] = Idle]
    /\ UNCHANGED <<authVars, lvdReadings, deviceVars, backend, readings, settings, now, rx, requests>>

NextPolicy ==
    \/ \E p \in Operators, req \in PutRequests : PutStart(p, "operator", req)
    \/ \E p \in Operators : PutCheck(p)
    \/ \E p \in Operators : PutInsert(p)
    \/ \E p \in Operators : PutUpdate(p)

\* the policy store does not depend on the hives: all active
InitPolicy ==
    /\ Init
    /\ SeededUsers
    /\ backend = "routes"
    /\ \A h \in HiveIds : hives[h].is_active

SpecPolicy == InitPolicy /\ [][NextPolicy]_vars

InitPolicyIndex ==
    /\ Init
    /\ SeededUsers
    /\ backend = "index"
    /\ \A h \in HiveIds : hives[h].is_active

NextPolicyIndex == \E req \in PutRequests : IndexPutSettings("operator", req)

SpecPolicyIndex == InitPolicyIndex /\ [][NextPolicyIndex]_vars

----------------------------------------------------------------------------
(* LVD controller: arduino/lvd_controller/lvd_controller.ino *)

\* battery voltage samples, in hundredths of a volt
Voltages == {320, 330, 340, 350, 360, 370}

\* fetchSettings(): GET of the policy.  Without WiFi, on a status other
\* than 200 or on a parse error the cached values stay; otherwise they are
\* replaced by the answer of GET /lvd/settings.
FetchSettings ==
    /\ backend = "routes"
    /\ dpc = "loop"
    /\ \/ UNCHANGED <<disconnectVoltage, reconnectVoltage, lvdEnabled>>
       \/ \E row \in PolicyRows(settings) :
            /\ disconnectVoltage' = row.disconnect_volt
            /\ reconnectVoltage' = row.reconnect_volt
            /\ lvdEnabled' = row.lvd_enabled
    /\ UNCHANGED <<dpc, voltage, relayState, attempts, sensor>>
    /\ UNCHANGED <<authVars, lvdReadings, backend, hives, readings, settings, now, rx, put, requests, resp>>

\* the number of times connectWiFi() polls WiFi.status() before it gives up
WIFI_ATTEMPTS == 30

\* loop(): WiFi.status() != WL_CONNECTED, connectWiFi() is entered
ConnectWiFi ==
    /\ dpc = "loop"
    /\ dpc' = "connect"
    /\ attempts' = 0
    /\ UNCHANGED <<voltage, relayState, disconnectVoltage, reconnectVoltage, lvdEnabled,
                   sensor>>
    /\ UNCHANGED <<authVars, lvdReadings, backend, hives, readings, settings, now, rx, put, requests, resp>>

\* mutant: connectWiFi() polls until WiFi.status() is WL_CONNECTED
ConnectAttemptNoLimit(connected) ==
    /\ dpc = "connect"
    /\ IF ~connected
       THEN /\ attempts' = (attempts + 1) % (WIFI_ATTEMPTS + 1)
            /\ dpc' = dpc
       ELSE /\ attempts' = 0
            /\ dpc' = "read"
    /\ UNCHANGED <<voltage, relayState, disconnectVoltage, reconnectVoltage, lvdEnabled,
                   sensor>>
    /\ UNCHANGED <<authVars, lvdReadings, backend, hives, readings, settings, now, rx, put, requests, resp>>

\* connectWiFi(): one evaluation of the while condition, with the answer
\* of WiFi.status(); the body is delay(500); attempts++
ConnectAttempt(connected) ==
    /\ dpc = "connect"
    /\ IF ~connected /\ attempts < WIFI_ATTEMPTS
       THEN /\ attempts' = attempts + 1
            /\ dpc' = dpc
       ELSE /\ attempts' = 0
            /\ dpc' = "read"
    /\ UNCHANGED <<voltage, relayState, disconnectVoltage, reconnectVoltage, lvdEnabled,
                   sensor>>
    /\ UNCHANGED <<authVars, lvdReadings, backend, hives, readings, settings, now, rx, put, requests, resp>>

\* loop(): float voltage = readBatteryVoltage(); reached with WiFi
\* connected, or after connectWiFi() returned
ReadBattery(v) ==
    /\ dpc \in {"loop", "read"}
    /\ voltage' = v
    /\ dpc' = "control"
    /\ UNCHANGED <<relayState, disconnectVoltage, reconnectVoltage, lvdEnabled,
                   attempts, sensor>>
    /\ UNCHANGED <<authVars, lvdReadings, backend, hives, readings, settings, now, rx, put, requests, resp>>

\* mutant: disconnects at the threshold itself
RelayDecisionAtThreshold(st, en, v, d, r) ==
    IF ~en THEN TRUE
    ELSE IF st
         THEN (IF v <= d THEN FALSE ELSE st)
         ELSE (IF v > r THEN TRUE ELSE st)

\* mutant: reconnects at the threshold itself
RelayDecisionEagerReconnect(st, en, v, d, r) ==
    IF ~en THEN TRUE
    ELSE IF st
         THEN (IF v < d THEN FALSE ELSE st)
         ELSE (IF v >= r THEN TRUE ELSE st)

\* the relay state controlRelay(v) leaves, from state st with the cached
\* policy (en, d, r)
RelayDecision(st, en, v, d, r) ==
    IF ~en THEN TRUE
    ELSE IF st
         THEN (IF v < d THEN FALSE ELSE st)
         ELSE (IF v > r THEN TRUE ELSE st)

\* loop(): controlRelay(voltage);
ControlRelay ==
    /\ dpc = "control"
    /\ relayState' = RelayDecision(relayState, lvdEnabled, voltage,
                                   disconnectVoltage, reconnectVoltage)
    /\ dpc' = "send"
    /\ UNCHANGED <<voltage, disconnectVoltage, reconnectVoltage, lvdEnabled,
                   attempts, sensor>>
    /\ UNCHANGED <<authVars, lvdReadings, backend, hives, readings, settings, now, rx, put, requests, resp>>

\* what a POST of a device comes to: WiFi down (no request is made), a
\* transport error (httpCode <= 0), a status other than 200, or 200
PostOutcomes == {"nowifi", "error", "rejected", "ok"}

\* loop(): sendStatus(voltage).  On 200 with a body that carries
\* disconnect_volt the cached policy is replaced by the echoed one; on
\* every other outcome it stays.  The row the server stores for the call is
\* that of PostLvd and is not kept here.
SendStatus(outcome) ==
    /\ backend = "routes"
    /\ dpc = "send"
    /\ dpc' = "loop"
    /\ IF outcome = "ok"
       THEN \E row \in PolicyRows(settings) :
               /\ disconnectVoltage' = row.disconnect_volt
               /\ reconnectVoltage' = row.reconnect_volt
               /\ lvdEnabled' = row.lvd_enabled
       ELSE UNCHANGED <<disconnectVoltage, reconnectVoltage, lvdEnabled>>
    /\ UNCHANGED <<voltage, relayState, attempts, sensor>>
    /\ UNCHANGED <<authVars, lvdReadings, backend, hives, readings, settings, now, rx, put, requests, resp>>

\* policy updates an operator sends while the controller runs
RelayRequests ==
    {r \in PutRequests :
        /\ r.disconnect_volt.kind \in {"absent", "num"}
        /\ r.reconnect_volt.kind = "absent" \/ r.reconnect_volt.v = 3400
        /\ r.lvd_enabled # "true"}

NextRelay ==
    \/ FetchSettings
    \/ \E v \in Voltages : ReadBattery(v)
    \/ ControlRelay
    \/ \E outcome \in PostOutcomes : SendStatus(outcome)
    \/ \E req \in RelayRequests : PutStart(1, "operator", req)
    \/ PutCheck(1)
    \/ PutInsert(1)
    \/ PutUpdate(1)

\* the controller talks to the routes backend
InitRelay == InitPolicy

SpecRelay == InitRelay /\ [][NextRelay]_vars

----------------------------------------------------------------------------
(* Sensor node: arduino/hive_sensor_nodejs/hive_sensor_nodejs.ino.         *)
(* sensor.httpCode keeps the outcome of the last POST; the sketch only     *)
(* prints it.                                                               *)

\* loop(): a reading is due; connectWiFi() is entered when WiFi.status()
\* is not WL_CONNECTED
SensorLoop(connected) ==
    /\ sensor.pc = "loop"
    /\ sensor' = [sensor EXCEPT !.pc = IF connected THEN "read" ELSE "connect",
                                !.attempts = 0]
    /\ UNCHANGED <<dpc, voltage, relayState, disconnectVoltage, reconnectVoltage,
                   lvdEnabled, attempts>>
    /\ UNCHANGED <<authVars, lvdReadings, backend, hives, readings, settings, now, rx, put, requests, resp>>

\* connectWiFi(): one evaluation of the while condition
SensorConnectAttempt(connected) ==
    /\ sensor.pc = "connect"
    /\ sensor' = IF ~connected /\ sensor.attempts < WIFI_ATTEMPTS
                 THEN [sensor EXCEPT !.attempts = sensor.attempts + 1]
                 ELSE [sensor EXCEPT !.pc = "read", !.attempts = 0]
    /\ UNCHANGED <<dpc, voltage, relayState, disconnectVoltage, reconnectVoltage,
                   lvdEnabled, attempts>>
    /\ UNCHANGED <<authVars, lvdReadings, backend, hives, readings, settings, now, rx, put, requests, resp>>

\* readAndSend(): the sensors are read; on a DS18B20 error the function
\* returns, otherwise sendData() is called
SensorRead(ok) ==
    /\ sensor.pc = "read"
    /\ sensor' = [sensor EXCEPT !.pc = IF ok THEN "send" ELSE "loop"]
    /\ UNCHANGED <<dpc, voltage, relayState, disconnectVoltage, reconnectVoltage,
                   lvdEnabled, attempts>>
    /\ UNCHANGED <<authVars, lvdReadings, backend, hives, readings, settings, now, rx, put, requests, resp>>

\* sendData(): the POST and its outcome, which is printed; the function
\* returns to loop() in every case.  The reading the server stores for the
\* call is that of the receive handler and is not kept here.
SensorPost(outcome) ==
    /\ sensor.pc = "send"
    /\ sensor' = [sensor EXCEPT !.pc = "loop", !.httpCode = outcome]
    /\ UNCHANGED <<dpc, voltage, relayState, disconnectVoltage, reconnectVoltage,
                   lvdEnabled, attempts>>
    /\ UNCHANGED <<authVars, lvdReadings, backend, hives, readings, settings, now, rx, put, requests, resp>>

----------------------------------------------------------------------------
(* The loops of the two devices.  loop() is called again and again and     *)
(* every call in it returns (the HTTP client has a timeout), so each step   *)
(* of a sketch that can be taken is eventually taken.                       *)

LoopVoltages == {320, 370}

NextLoops ==
    \/ FetchSettings
    \/ ConnectWiFi
    \/ \E connected \in BOOLEAN : ConnectAttempt(connected)
    \/ \E v \in LoopVoltages : ReadBattery(v)
    \/ ControlRelay
    \/ \E outcome \in PostOutcomes : SendStatus(outcome)
    \/ \E connected \in BOOLEAN : SensorLoop(connected)
    \/ \E connected \in BOOLEAN : SensorConnectAttempt(connected)
    \/ \E ok \in BOOLEAN : SensorRead(ok)
    \/ \E outcome \in PostOutcomes : SensorPost(outcome)

SpecLoops ==
    /\ InitPolicy
    /\ [][NextLoops]_vars
    /\ WF_vars(\E connected \in BOOLEAN : ConnectAttempt(connected))
    /\ WF_vars(\E v \in LoopVoltages : ReadBattery(v))
    /\ WF_vars(ControlRelay)
    /\ WF_vars(\E outcome \in PostOutcomes : SendStatus(outcome))
    /\ WF_vars(\E connected \in BOOLEAN : SensorLoop(connected))
    /\ WF_vars(\E connected \in BOOLEAN : SensorConnectAttempt(connected))
    /\ WF_vars(\E ok \in BOOLEAN : SensorRead(ok))
    /\ WF_vars(\E outcome \in PostOutcomes : SensorPost(outcome))

----------------------------------------------------------------------------
(* Registration: POST /api/auth/register of routes/auth.js *)

\* body fields of a register request
RegisterNames == {ABSENT, "admin", "eve"}
RegisterPasswords == {ABSENT, "pw"}
SetupKeys == {ABSENT, "guess", "setup-secret"}

RegisterResponse(code, req) == [op |-> "register", status |-> code, req |-> req]

RegInFlight == Cardinality({c \in Clients : reg[c].pc # "idle"})

\* From the request up to the await of the INSERT: SELECT COUNT(*) FROM
\* users, the setup key check and the check of the fields.  An absent
\* setupKey and an unset SETUP_KEY are both undefined.
RegisterCount(c, username, password, setupKey) ==
    /\ backend = "routes"
    /\ reg[c].pc = "idle"
    /\ Len(users) + RegInFlight < MaxUsers
    /\ LET req == [username |-> username, password |-> password, setupKey |-> setupKey]
       IN  IF Len(users) > 0 /\ setupKey # SETUP_KEY
           THEN /\ resp' = RegisterResponse(403, req)
                /\ reg' = reg
           ELSE IF Falsy(username) \/ Falsy(password)
           THEN /\ resp' = RegisterResponse(400, req)
                /\ reg' = reg
           ELSE /\ reg' = [reg EXCEPT ![c] = [pc |-> "insert", req |-> req]]
                /\ resp' = resp
    /\ UNCHANGED <<users, SETUP_KEY>>
    /\ UNCHANGED <<lvdReadings, deviceVars, put, requests, backend, hives, readings,
                   settings, now, rx>>

\* INSERT INTO users (username, password): username is UNIQUE, a
\* duplicate is answered 400; otherwise 201
RegisterInsert(c) ==
    /\ reg[c].pc = "insert"
    /\ IF \E i \in DOMAIN users : users[i] = reg[c].req.username
       THEN /\ users' = users
            /\ resp' = RegisterResponse(400, reg[c].req)
       ELSE /\ users' = Append(users, reg[c].req.username)
            /\ resp' = RegisterResponse(201, reg[c].req)
    /\ reg' = [reg EXCEPT ![c] = Idle]
    /\ UNCHANGED SETUP_KEY
    /\ UNCHANGED <<lvdReadings, deviceVars, put, requests, backend, hives, readings,
                   settings, now, rx>>

NextRegister ==
    \/ \E c \in Clients, username \in RegisterNames, password \in RegisterPasswords,
          setupKey \in SetupKeys : RegisterCount(c, username, password, setupKey)
    \/ \E c \in Clients : RegisterInsert(c)

\* registration does not depend on the hives or the policy
InitRegister ==
    /\ Init
    /\ backend = "routes"
    /\ settings # <<>>
    /\ \A h \in HiveIds : hives[h].is_active

SpecRegister == InitRegister /\ [][NextRegister]_vars

----------------------------------------------------------------------------
(* The clock *)

TickSteps == {500, 600, 700}

Tick(d) ==
    /\ now + d <= MaxTime
    /\ now' = now + d
    /\ UNCHANGED <<authVars, lvdReadings, deviceVars, put, requests, backend, hives, readings, settings, rx, resp>>

----------------------------------------------------------------------------
(* Ingestion alone: every kind of request, both backends *)

NextIngest ==
    \/ \E c \in Clients, key \in RequestKeys, t \in RequestTemps :
          ReceiveLookup(c, key, t, NoOptional)
    \/ \E c \in Clients : ReceiveInsert(c)
    \/ \E key \in RequestKeys, t \in RequestTemps, a \in AliasTemps :
          PostReadings(key, t, a, NoOptional)

\* ingestion is checked with the policy row seeded
InitIngest == Init /\ settings # <<>> /\ SeededUsers

SpecIngest == InitIngest /\ [][NextIngest]_vars

----------------------------------------------------------------------------
(* Ingestion, the clock and the hive queries (routes backend) *)

\* the sensors of the registered hives, sending temperatures in range
SensorKeys == {SeedKey(h) : h \in HiveIds}
SensorTemps == {[kind |-> "num", v |-> t] : t \in {34567, 85000}}

NextOnline ==
    \/ \E c \in Clients, key \in SensorKeys, t \in SensorTemps :
          ReceiveLookup(c, key, t, NoOptional)
    \/ \E c \in Clients : ReceiveInsert(c)
    \/ GetHives(ABSENT)
    \/ \E id \in 1..(NumHives + 1) : GetHive(ABSENT, id, "24h")
    \/ \E d \in TickSteps : Tick(d)

InitOnline == InitIngest /\ backend = "routes"

SpecOnline == InitOnline /\ [][NextOnline]_vars

----------------------------------------------------------------------------
(* Ingestion with the optional fields, with and without a temperature *)

MandatoryTemps ==
    {Absent, [kind |-> "nan", v |-> 0], [kind |-> "num", v |-> 34567]}

NextMandatory ==
    \/ \E c \in Clients, key \in RequestKeys, t \in MandatoryTemps, opt \in OptionalFields :
          ReceiveLookup(c, key, t, opt)
    \/ \E c \in Clients : ReceiveInsert(c)
    \/ \E key \in RequestKeys, t \in MandatoryTemps, a \in MandatoryTemps,
          opt \in OptionalFields : PostReadings(key, t, a, opt)

SpecMandatory == InitIngest /\ [][NextMandatory]_vars

----------------------------------------------------------------------------
(* The policy store with its readers, both backends *)

StoreRequests ==
    {r \in PutRequests :
        /\ r.disconnect_volt.kind = "absent" \/ r.disconnect_volt.v = 3500
        /\ r.reconnect_volt.kind = "absent" \/ r.reconnect_volt.v = 3400
        /\ r.lvd_enabled # "true"}

NextStore ==
    \/ \E req \in StoreRequests : PutStart(1, "operator", req)
    \/ PutCheck(1)
    \/ PutInsert(1)
    \/ PutUpdate(1)
    \/ GetSettings(ABSENT)
    \/ GetLvd
    \/ \E v \in LvdVoltages, st \in LvdStatuses : PostLvd(v, st)
    \/ \E req \in StoreRequests : IndexPutSettings("operator", req)
    \/ \E tok \in Tokens : IndexGetLvd(tok)
    \/ \E v \in LvdVoltages, st \in LvdStatuses : IndexPostLvdStatus(v, st)
    \/ \E d \in TickSteps : Tick(d)

InitStore ==
    /\ Init
    /\ SeededUsers
    /\ \A h \in HiveIds : hives[h].is_active

SpecStore == InitStore /\ [][NextStore]_vars

----------------------------------------------------------------------------
(* The policy store and the credentials of its callers *)

AuthRequests ==
    {r \in StoreRequests : r.reconnect_volt.kind = "absent"}

NextAuth ==
    \/ \E tok \in Tokens, req \in AuthRequests : PutStart(1, tok, req)
    \/ PutCheck(1)
    \/ PutInsert(1)
    \/ PutUpdate(1)
    \/ \E tok \in Tokens : GetSettings(tok)
    \/ \E v \in {Absent, [kind |-> "num", v |-> 330]} : PostLvd(v, "1")
    \/ \E tok \in Tokens, req \in AuthRequests : IndexPutSettings(tok, req)
    \/ \E tok \in Tokens : IndexGetLvd(tok)
    \/ \E v \in {Absent, [kind |-> "num", v |-> 330]} : IndexPostLvdStatus(v, "1")

SpecAuth == InitStore /\ [][NextAuth]_vars

----------------------------------------------------------------------------
(* The registry alone: renames and key regenerations *)

RegistryNames == {"", " Queen ", "Alpha"}

NextRegistry ==
    \/ \E id \in 1..(NumHives + 1), n \in RegistryNames : PutHive("operator", id, n)
    \/ \E id \in 1..(NumHives + 1), n \in RegistryNames : IndexPutHive("operator", id, n)
    \/ \E id \in 1..(NumHives + 1) : RegenLookup(1, "operator", id)
    \/ \E rnd \in RandomSuffixes : RegenUpdate(1, rnd)

\* is_active is not written by these routes: all hives active
InitRegistry ==
    /\ InitIngest
    /\ \A h \in HiveIds : hives[h].is_active

SpecRegistry == InitRegistry /\ [][NextRegistry]_vars

----------------------------------------------------------------------------
(* The windowed series of a hive, both backends *)

MaxDays == 1

\* a day passes
TickDay ==
    /\ now < MaxDays * DAY
    /\ now' = now + DAY
    /\ UNCHANGED <<authVars, lvdReadings, deviceVars, put, requests, backend, hives, readings,
                   settings, rx, resp>>

NextWindow ==
    \/ \E c \in Clients, key \in SensorKeys :
          ReceiveLookup(c, key, [kind |-> "num", v |-> 34567], NoOptional)
    \/ \E c \in Clients : ReceiveInsert(c)
    \/ \E key \in SensorKeys :
          PostReadings(key, [kind |-> "num", v |-> 34567], Absent, NoOptional)
    \/ \E id \in HiveIds, range \in Ranges : GetHive(ABSENT, id, range)
    \/ \E id \in HiveIds, range \in Ranges : IndexGetReadings("operator", id, range)
    \/ Tick(500)
    \/ TickDay

SpecWindow == InitRegistry /\ [][NextWindow]_vars

----------------------------------------------------------------------------
(* The chart series, for every size of the selected series *)

NextChart ==
    \/ \E n \in 0..MaxChart : GetChart(n)
    \/ \E n \in 0..MaxChart : HiveDetailChart(n)

SpecChart == InitRegistry /\ [][NextChart]_vars

----------------------------------------------------------------------------
(* Renames, with every kind of name *)

NextRename ==
    \/ \E id \in 1..(NumHives + 1), n \in RenameNames : PutHive("operator", id, n)
    \/ \E id \in 1..(NumHives + 1), n \in RenameNames : IndexPutHive("operator", id, n)

SpecRename == InitIngest /\ [][NextRename]_vars

----------------------------------------------------------------------------
(* Key regeneration while the sensors send readings *)

\* every key a hive of the model can hold
AllKeys ==
    {SeedKey(h) : h \in HiveIds}
        \cup {toLowerCase(SeedName(h)) \o "_" \o rnd : h \in HiveIds, rnd \in RandomSuffixes}

NextKeys ==
    \/ \E p \in Operators, id \in HiveIds : RegenLookup(p, "operator", id)
    \/ \E p \in Operators, rnd \in RandomSuffixes : RegenUpdate(p, rnd)
    \/ \E c \in Clients, key \in AllKeys :
          ReceiveLookup(c, key, [kind |-> "num", v |-> 34567], NoOptional)
    \/ \E c \in Clients : ReceiveInsert(c)
    \/ \E key \in AllKeys :
          PostReadings(key, [kind |-> "num", v |-> 34567], Absent, NoOptional)

SpecKeys == InitIngest /\ [][NextKeys]_vars

----------------------------------------------------------------------------
(* The aggregates of a hive, from sensors with and without a scale or a     *)
(* humidity sensor                                                          *)

\* the payloads of three kinds of sensor node: with every sensor, without a
\* scale, and with an unloaded scale only
StatsPayloads ==
    {[temp |-> 34567, opt |-> [hdc_temp |-> Absent,
                               humidity |-> [kind |-> "num", v |-> 55000],
                               weight   |-> [kind |-> "num", v |-> 35500]]],
     [temp |-> 85000, opt |-> [hdc_temp |-> Absent,
                               humidity |-> [kind |-> "num", v |-> 55000],
                               weight   |-> Absent]],
     [temp |-> 20000, opt |-> [hdc_temp |-> Absent,
                               humidity |-> Absent,
                               weight   |-> [kind |-> "num", v |-> 0]]]}

\* the payload of the sensor of another hive
OtherPayload ==
    [temp |-> 30000, opt |-> [hdc_temp |-> Absent,
                              humidity |-> [kind |-> "num", v |-> 70000],
                              weight   |-> [kind |-> "num", v |-> 41250]]]

\* hive 1 is queried while its sensor and that of another hive send
NextStats ==
    \/ \E d \in StatsPayloads :
          ReceiveLookup(1, SeedKey(1), [kind |-> "num", v |-> d.temp], d.opt)
    \/ ReceiveLookup(1, SeedKey(NumHives), [kind |-> "num", v |-> OtherPayload.temp],
                     OtherPayload.opt)
    \/ ReceiveInsert(1)
    \/ \E range \in {"24h", "7d"} : GetHive(ABSENT, 1, range)
    \/ \E id \in {1, NoHiveId} : GetStats(id, 24)
    \/ Tick(500)
    \/ TickDay

InitStats == InitRegistry /\ backend = "routes"

SpecStats == InitStats /\ [][NextStats]_vars

----------------------------------------------------------------------------
(* Ingestion of weights: from the sensor node (built with the scale        *)
(* enabled) and from any other caller                                       *)

\* scale.get_units(10), in thousandths of a kilogram
RawWeights == {-250, 0, 35500}

\* readAndSend: if (weight < 0) weight = 0;
ClampWeight(w) == IF w < 0 THEN 0 ELSE w

\* sendData: the weight field of the body, String(weight, 2), sent only
\* if (weight > 0)
SentWeight(w) ==
    IF w > 0 THEN [kind |-> "num", v |-> Decimal52(w) * 10] ELSE Absent

\* readAndSend of the sensor node of hive h with the scale reading raw
SensorSend(c, h, raw) ==
    ReceiveLookup(c, SeedKey(h), [kind |-> "num", v |-> 34567],
                  [NoOptional EXCEPT !.weight = SentWeight(ClampWeight(raw))])

\* the weight field of a call from any caller
WeightFields ==
    {[NoOptional EXCEPT !.weight = [kind |-> "num", v |-> w]] : w \in RawWeights}

NextWeight ==
    \/ \E c \in Clients, h \in HiveIds, raw \in RawWeights : SensorSend(c, h, raw)
    \/ \E c \in Clients, key \in SensorKeys, opt \in WeightFields :
          ReceiveLookup(c, key, [kind |-> "num", v |-> 34567], opt)
    \/ \E c \in Clients : ReceiveInsert(c)
    \/ \E key \in SensorKeys, opt \in WeightFields :
          PostReadings(key, [kind |-> "num", v |-> 34567], Absent, opt)

SpecWeight == InitRegistry /\ [][NextWeight]_vars

----------------------------------------------------------------------------
(* The public queries while keys are regenerated *)

\* the sensor of hive 1 sends, its key is regenerated, and callers with and
\* without a valid token query
NextConfidential ==
    \/ ReceiveLookup(1, SeedKey(1), [kind |-> "num", v |-> 34567], NoOptional)
    \/ ReceiveInsert(1)
    \/ RegenLookup(1, "operator", 1)
    \/ \E rnd \in RandomSuffixes : RegenUpdate(1, rnd)
    \/ \E tok \in Tokens : GetHives(tok)
    \/ \E tok \in Tokens, id \in {1, NumHives + 1} : GetHive(tok, id, "24h")
    \/ \E tok \in Tokens, limit \in ListLimits : ListReadings(tok, 1, limit)

SpecConfidential == InitStats /\ [][NextConfidential]_vars

----------------------------------------------------------------------------
(* The device-facing calls of the routes backend, with storage failures *)

NextCalls ==
    \/ \E c \in Clients, key \in {"", SeedKey(1)}, t \in MandatoryTemps :
          ReceiveLookup(c, key, t, NoOptional)
    \/ \E c \in Clients : ReceiveInsert(c)
    \/ \E c \in Clients : ReceiveInsertFails(c)
    \/ \E v \in LvdVoltages, st \in LvdStatuses : PostLvd(v, st)
    \/ \E v \in LvdVoltages, st \in LvdStatuses : PostLvdInsertFails(v, st)
    \/ \E v \in LvdVoltages, st \in LvdStatuses : PostLvdEchoFails(v, st)

SpecCalls == InitStats /\ [][NextCalls]_vars

----------------------------------------------------------------------------
(* Key regeneration for hives with names of every length *)

NextRegenerate ==
    \/ \E n \in LongNames \cup {"Alpha"} : PutHive("operator", 1, n)
    \/ \E p \in Operators, id \in HiveIds : RegenLookup(p, "operator", id)
    \/ \E p \in Operators, rnd \in RandomSuffixes : RegenUpdate(p, rnd)

SpecRegenerate == InitStats /\ [][NextRegenerate]_vars

----------------------------------------------------------------------------
(* Policy updates of several operators, with the reads of the dashboard    *)
(* and of the controller                                                    *)

ReadWriteRequests ==
    {r \in PutRequests :
        /\ r.disconnect_volt.kind = "absent" \/ r.disconnect_volt.v = 3500
        /\ r.reconnect_volt.kind = "absent"
        /\ r.lvd_enabled # "true"}

NextReadWrite ==
    \/ \E p \in Operators, req \in ReadWriteRequests : PutStart(p, "operator", req)
    \/ \E p \in Operators : PutCheck(p)
    \/ \E p \in Operators : PutInsert(p)
    \/ \E p \in Operators : PutUpdate(p)
    \/ GetSettings(ABSENT)
    \/ PostLvd([kind |-> "num", v |-> 330], "1")

SpecReadWrite == InitPolicy /\ [][NextReadWrite]_vars

----------------------------------------------------------------------------
(* The controller while operators update the policy.  Every handler of the *)
(* server runs to its end, the loop of the sketch goes on, and a status    *)
(* POST that is tried again and again is answered with 200 again and again. *)

NextPropagate ==
    \/ \E p \in Operators, req \in ReadWriteRequests : PutStart(p, "operator", req)
    \/ \E p \in Operators : PutCheck(p)
    \/ \E p \in Operators : PutInsert(p)
    \/ \E p \in Operators : PutUpdate(p)
    \/ FetchSettings
    \/ \E v \in LoopVoltages : ReadBattery(v)
    \/ ControlRelay
    \/ \E outcome \in PostOutcomes : SendStatus(outcome)

SpecPropagate ==
    /\ InitPolicy
    /\ [][NextPropagate]_vars
    /\ WF_vars(\E p \in Operators : PutCheck(p))
    /\ WF_vars(\E p \in Operators : PutInsert(p))
    /\ WF_vars(\E p \in Operators : PutUpdate(p))
    /\ WF_vars(\E v \in LoopVoltages : ReadBattery(v))
    /\ WF_vars(ControlRelay)
    /\ WF_vars(\E outcome \in PostOutcomes : SendStatus(outcome))
    /\ SF_vars(SendStatus("ok"))

----------------------------------------------------------------------------
(* Properties of the ingestion service *)

IngestOps == {"receive", "postReadings"}

\* the step sends a response
Responded == resp' # resp

\* the step sends the response of an ingestion call
IngestResponse == Responded /\ resp'.op \in IngestOps

\* the step appends exactly one row to readings
AppendsOne ==
    /\ Len(readings') = Len(readings) + 1
    /\ SubSeq(readings', 1, Len(readings)) = readings

\* the temperature field a request carries (temp, or its alias temperature)
SentTemperature(req) ==
    IF req.temp.kind # "absent" \/ "temperature" \notin DOMAIN req
    THEN req.temp
    ELSE req.temperature

\* C1 (as claimed): an ingestion call whose credential is absent, empty,
\* unknown or that of an inactive hive is answered 401 and adds no reading.
C1_AuthGate ==
    [][(IngestResponse /\ (Falsy(resp'.req.api_key)
                            \/ \A h \in HiveIds : \/ hives[h].api_key # resp'.req.api_key
                                                    \/ ~hives[h].is_active))
        => (resp'.status = 401 /\ readings' = readings)]_vars

\* C2 (as claimed): with a valid credential and a numeric temperature, the
\* call is rejected with 400 and stores nothing when the temperature is
\* outside [-40, 85], and is accepted with 200 and stores exactly one reading
\* when it is inside, bounds included.
C2_RangeValidation ==
    [][(/\ IngestResponse
        /\ \E h \in HiveIds : hives[h].api_key = resp'.req.api_key /\ hives[h].is_active
        /\ SentTemperature(resp'.req).kind = "num")
        => LET t == SentTemperature(resp'.req).v
           IN  IF t < -40000 \/ t > 85000
               THEN resp'.status = 400 /\ readings' = readings
               ELSE resp'.status = 200 /\ AppendsOne]_vars

\* a step that answers a policy read
PolicyRead ==
    /\ Responded
    /\ resp'.op \in {"getSettings", "getLvd", "postLvd"}
    /\ resp'.status = 200

\* no field of the policy is missing
CompletePolicy(p) ==
    /\ p.disconnect_volt # NullVolt
    /\ p.reconnect_volt # NullVolt
    /\ backend = "index" => p.lvd_enabled # "absent"

\* the policy is disconnect 3.30 V, reconnect 3.60 V, enabled
SpecDefaultPolicy(p) ==
    /\ p.disconnect_volt = 330
    /\ p.reconnect_volt = 360
    /\ p.lvd_enabled = IF backend = "index" THEN "true" ELSE TRUE

\* C12 (as claimed): every policy read returns a complete policy, and while
\* no update request was ever received it is 3.30 V / 3.60 V / enabled.
C12_NeverEmptyHanded ==
    [][PolicyRead
        => /\ CompletePolicy(resp'.policy)
           /\ requests = 0 => SpecDefaultPolicy(resp'.policy)]_vars

\* C11 (as claimed): an ingestion call with the credential of an active hive
\* and no numeric temperature field (absent or not a number) is answered 400
\* and stores no reading, whatever optional fields it carries.
C11_MandatoryTemperature ==
    [][(/\ IngestResponse
        /\ \E h \in HiveIds : hives[h].api_key = resp'.req.api_key /\ hives[h].is_active
        /\ resp'.req.temp.kind # "num"
        /\ ("temperature" \in DOMAIN resp'.req => resp'.req.temperature.kind # "num"))
        => (resp'.status = 400 /\ readings' = readings)]_vars

\* the greatest recorded_at among the readings of hive h
MaxRecordedAt(h) ==
    CHOOSE t \in {readings[i].recorded_at : i \in RowsOf(h)} :
        \A i \in RowsOf(h) : readings[i].recorded_at <= t

\* what the claim says is_online must be for hive h at the time of the query
OnlineExpected(h) ==
    /\ RowsOf(h) # {}
    /\ now - MaxRecordedAt(h) < 600

C8_PolicyEcho ==
    [][(/\ IngestResponse /\ resp'.status = 200
        /\ \E h \in HiveIds : hives[h].api_key = resp'.req.api_key /\ hives[h].is_active
        /\ SentTemperature(resp'.req).kind = "num"
        /\ SentTemperature(resp'.req).v >= -40000
        /\ SentTemperature(resp'.req).v <= 85000)
        => (resp'.settings # {} /\ resp'.settings \subseteq PolicyRows(settings'))]_vars

\* the reading stored by the last accepted call for hive h: the last row of
\* h in insertion order
LastAccepted(h) == CHOOSE i \in RowsOf(h) : \A j \in RowsOf(h) : j <= i

\* C9 (as claimed): after an accepted call for hive D with temperature t
\* and before a later accepted one, the latest-reading query for D returns
\* that reading, with temperature t (at the precision of the column).
C9_LatestAfterSubmit ==
    /\ (resp.op = "receive" /\ resp.status = 200)
          => \A i \in LatestChoices(resp.hive) :
                /\ i = resp.id
                /\ readings[i].temp = NumValue(Decimal52(resp.req.temp.v))
    /\ resp.op = "getHives"
          => \A h \in DOMAIN resp.hives :
                RowsOf(h) # {} => resp.hives[h].latest = LastAccepted(h)
    /\ (resp.op = "getHive" /\ resp.status = 200)
          => (RowsOf(resp.id) # {} => resp.hive.latest = LastAccepted(resp.id))

\* a step of an ingestion call: the lookup, or the one that responds
IngestStep == rx' # rx \/ IngestResponse

\* C10: an accepted ingestion call appends exactly one reading, a rejected
\* one none, and no step of an ingestion call changes the hives table or
\* the stored policy.
C10_IngestionFrame ==
    [][IngestStep
        => /\ hives' = hives
           /\ settings' = settings
           /\ IF IngestResponse /\ resp'.status = 200
              THEN AppendsOne
              ELSE readings' = readings]_vars

\* C10 witness: a second identical payload was accepted and stored again.
C10_Witness ==
    /\ resp.op = "receive" /\ resp.status = 200
    /\ Len(readings) = 2
    /\ readings[1] = readings[2]

----------------------------------------------------------------------------
(* Properties of the policy store *)

\* a policy row satisfies the hysteresis invariant
ValidPolicy(row) ==
    /\ row.disconnect_volt < row.reconnect_volt
    /\ row.disconnect_volt >= 250 /\ row.disconnect_volt <= 420
    /\ row.reconnect_volt >= 250 /\ row.reconnect_volt <= 420

\* C3 (as claimed): after every sequence of PUT /lvd/settings calls the
\* stored policy satisfies disconnect < reconnect with both voltages in
\* [2.5, 4.2] (a call that would break this is rejected and changes nothing).
C3_PolicyInvariant ==
    \A i \in DOMAIN settings : ValidPolicy(settings[i])

\* C4 (as claimed): an update that is valid when applied alone to the policy
\* it observed never turns a valid stored policy into one that violates
\* disconnect < reconnect, whatever other update ran concurrently.
C4_AtomicUpdate ==
    [][\A p \in Operators :
          (/\ put[p].pc = "update" /\ put'[p].pc = "idle"
           /\ ValidPolicy(ApplyUpdate(put[p].seen, put[p].req))
           /\ \A i \in DOMAIN settings : ValidPolicy(settings[i]))
          => \A i \in DOMAIN settings' : ValidPolicy(settings'[i])]_vars

\* the step completes an accepted PUT /lvd/settings
UpdateCompletes ==
    \E p \in Operators : put[p].pc = "update" /\ put'[p].pc = "idle"

\* C13 (as claimed): the settings table never holds more than one policy
\* row, and once an update has completed it holds exactly one.
C13_PolicySingleton ==
    [][/\ Len(settings') <= 1
       /\ UpdateCompletes => Len(settings') = 1]_vars

\* the step answers 200 to a PUT /lvd/settings that supplies some field
AcceptedPut ==
    /\ Responded
    /\ resp'.op = "putSettings"
    /\ resp'.status = 200
    /\ \/ resp'.req.disconnect_volt.kind # "absent"
       \/ resp'.req.reconnect_volt.kind # "absent"
       \/ resp'.req.lvd_enabled # "absent"

\* lvd_enabled as the backend stores the value v of the request
StoredEnabled(v) == IF backend = "index" THEN v ELSE (v = "true")

\* C14 (as claimed): an accepted PUT /lvd/settings leaves every field it
\* does not supply as it was, in every policy row, and the policy it
\* updated holds the supplied values.
C14_PartialMerge ==
    [][AcceptedPut =>
        LET req == resp'.req
        IN  /\ Len(settings') = Len(settings)
            /\ \A i \in DOMAIN settings :
                  /\ req.disconnect_volt.kind = "absent"
                        => settings'[i].disconnect_volt = settings[i].disconnect_volt
                  /\ req.reconnect_volt.kind = "absent"
                        => settings'[i].reconnect_volt = settings[i].reconnect_volt
                  /\ req.lvd_enabled = "absent"
                        => settings'[i].lvd_enabled = settings[i].lvd_enabled
            /\ \E i \in DOMAIN settings' :
                  /\ req.disconnect_volt.kind = "num"
                        => settings'[i].disconnect_volt = Decimal52(req.disconnect_volt.v)
                  /\ req.reconnect_volt.kind = "num"
                        => settings'[i].reconnect_volt = Decimal52(req.reconnect_volt.v)
                  /\ req.lvd_enabled # "absent"
                        => settings'[i].lvd_enabled = StoredEnabled(req.lvd_enabled)]_vars

\* the step is a write of an accepted PUT /lvd/settings of operator p
WriteOf(p) ==
    /\ put[p].pc \in {"insert", "update"}
    /\ put'[p] # put[p]

\* C15: only a request with a valid operator token changes the stored
\* policy: a PUT /lvd/settings without one is refused (401 or 403) before
\* any write and never gets in flight, GET /lvd/settings and POST /lvd leave
\* the policy as it is, and GET /lvd/settings is answered 200 whatever
\* credential it carries.
C15_OperatorOnly ==
    [][/\ settings' # settings
          => \/ \E p \in Operators : WriteOf(p) /\ put[p].tok = "operator"
             \/ /\ Responded /\ resp'.op = "putSettings"
                /\ resp'.status = 200 /\ resp'.tok = "operator"
       /\ \A p \in Operators : put'[p].pc # "idle" => put'[p].tok = "operator"
       /\ (Responded /\ resp'.op = "putSettings" /\ "tok" \in DOMAIN resp'
              /\ resp'.tok # "operator")
          => (resp'.status \in {401, 403} /\ settings' = settings /\ put' = put)
       /\ (Responded /\ resp'.op = "getSettings") => resp'.status = 200]_vars

\* C15 witness: after an accepted update changed the policy, a PUT with a
\* forged token was refused and GET /lvd/settings had been answered to a
\* caller without a credential.
C15_Witness ==
    /\ resp.op = "putSettings" /\ resp.status \in {401, 403}
    /\ resp.tok = "forged"
    /\ settings # <<>>
    /\ settings[1] # DefaultSettings(backend)

\* the step answers a windowed series query
SeriesResponse ==
    /\ Responded
    /\ resp'.op \in {"getHive", "getReadings"}
    /\ resp'.status = 200

\* C19 (as claimed): the windowed series of a hive comes in non-decreasing
\* recorded_at order, and readings with the same recorded_at in insertion
\* order (the order of their row ids).
C19_WindowOrdering ==
    [][SeriesResponse =>
        \A i, j \in DOMAIN resp'.readings :
            i < j => /\ readings[resp'.readings[i]].recorded_at
                           <= readings[resp'.readings[j]].recorded_at
                     /\ readings[resp'.readings[i]].recorded_at
                           = readings[resp'.readings[j]].recorded_at
                        => resp'.readings[i] < resp'.readings[j]]_vars

\* the step answers with a chart series
ChartResponse ==
    /\ Responded
    /\ resp'.op \in {"getChart", "hiveDetailChart"}

\* C20 (as claimed): of n > 200 selected readings the chart series is the
\* readings at positions 0, s, 2s, ... with s = ceil(n / 200), in their
\* order, at most 200 of them, from the first reading to within s of the
\* last; of n <= 200 readings it is all of them in their order.
C20_Downsampling ==
    [][ChartResponse =>
        LET n == resp'.n
            r == resp'.readings
            s == (n + 199) \div 200
        IN  IF n > 200
            THEN /\ Len(r) <= 200
                 /\ Len(r) = (n - 1) \div s + 1
                 /\ \A k \in DOMAIN r : r[k] = (k - 1) * s
                 /\ r[Len(r)] > n - 1 - s
            ELSE /\ Len(r) = n
                 /\ \A k \in DOMAIN r : r[k] = k - 1]_vars

\* the readings of hive h not older than w seconds whose column is present
InRangeWith(h, w, column) ==
    {r \in RowsOf(h) : /\ readings[r].recorded_at >= now - w
                       /\ readings[r][column].kind = "num"}

\* the average the claim asks for: over exactly these readings, null when
\* there is none
ExpectedAverage(h, w, column) ==
    IF InRangeWith(h, w, column) = {} THEN NullValue
    ELSE [kind |-> "avg", sum |-> SumRows(InRangeWith(h, w, column), column),
          n |-> Cardinality(InRangeWith(h, w, column))]

\* the least and the greatest temperature of these readings
ExpectedExtreme(h, w, least) ==
    IF InRangeWith(h, w, "temp") = {} THEN NullValue
    ELSE NumValue(CHOOSE x \in {readings[r].temp.v : r \in InRangeWith(h, w, "temp")} :
                     \A r \in InRangeWith(h, w, "temp") :
                        IF least THEN x <= readings[r].temp.v
                        ELSE x >= readings[r].temp.v)

\* C21: for a hive and a range, each aggregate (temperature avg/min/max,
\* humidity avg, weight avg) is computed over exactly the readings in range
\* whose value for that metric is present, and is null when there is none.
C21_PerMetricAggregates ==
    [][/\ (Responded /\ resp'.op = "getHive" /\ resp'.status = 200)
          => LET h == resp'.id
                 w == WindowSeconds(resp'.range)
             IN  /\ resp'.stats.temp.avg = ExpectedAverage(h, w, "temp")
                 /\ resp'.stats.temp.min = ExpectedExtreme(h, w, TRUE)
                 /\ resp'.stats.temp.max = ExpectedExtreme(h, w, FALSE)
                 /\ resp'.stats.humidity.avg = ExpectedAverage(h, w, "humidity")
                 /\ resp'.stats.weight.avg = ExpectedAverage(h, w, "weight")
       /\ (Responded /\ resp'.op = "getStats" /\ resp'.id # NoHiveId)
          => LET h == resp'.id
                 w == resp'.hours * 3600
             IN  /\ resp'.stats.avg_temp = ExpectedAverage(h, w, "temp")
                 /\ resp'.stats.min_temp = ExpectedExtreme(h, w, TRUE)
                 /\ resp'.stats.max_temp = ExpectedExtreme(h, w, FALSE)
                 /\ resp'.stats.avg_humidity = ExpectedAverage(h, w, "humidity")
                 /\ resp'.stats.avg_weight = ExpectedAverage(h, w, "weight")]_vars

\* C21 witness: the hive detail of a hive with two readings in range, one
\* of them without a weight: the weight average is that of the other alone,
\* and the temperature average that of both.
C21_Witness ==
    /\ resp.op = "getHive" /\ resp.status = 200
    /\ resp.stats.readings_count = 2
    /\ resp.stats.weight.avg.kind = "avg" /\ resp.stats.weight.avg.n = 1
    /\ resp.stats.temp.avg.kind = "avg" /\ resp.stats.temp.avg.n = 2

\* C22 (as claimed): an ingestion call with a valid credential, an
\* in-range temperature and a negative weight is accepted with 200 and its
\* reading is stored with weight 0.
C22_NegativeWeightClamp ==
    [][(/\ IngestResponse
        /\ \E h \in HiveIds : hives[h].api_key = resp'.req.api_key /\ hives[h].is_active
        /\ SentTemperature(resp'.req).kind = "num"
        /\ SentTemperature(resp'.req).v >= -40000
        /\ SentTemperature(resp'.req).v <= 85000
        /\ resp'.req.opt.weight.kind = "num"
        /\ resp'.req.opt.weight.v < 0)
        => /\ resp'.status = 200
           /\ AppendsOne
           /\ readings'[Len(readings')].weight = NumValue(0)]_vars

----------------------------------------------------------------------------
(* Properties of the device registry *)

\* key k resolves to hive h in the ingestion handler of the backend
Resolves(k, h) ==
    /\ hives[h].api_key = k
    /\ backend = "routes" => hives[h].is_active

\* the step commits a regenerate-key
RegenCommits ==
    /\ Responded
    /\ resp'.op = "regenerateKey"
    /\ resp'.status = 200

\* C16 (as claimed): once regenerate-key has committed for a hive only the
\* new credential resolves to it, and an ingestion call stores a reading
\* only while the credential it presented is the credential of the hive.
C16_AtomicRegeneration ==
    [][/\ RegenCommits
          => \A k \in AllKeys :
                (hives'[resp'.id].api_key = k) <=> (k = resp'.api_key)
       /\ (IngestResponse /\ resp'.status = 200)
          => hives[resp'.hive].api_key = resp'.req.api_key]_vars

\* C17: no two hives share an api_key, and the api_key of an active hive
\* is neither absent nor empty.
C17_CredentialUnique ==
    /\ \A g, h \in HiveIds : g # h => hives[g].api_key # hives[h].api_key
    /\ \A h \in HiveIds : hives[h].is_active => ~Falsy(hives[h].api_key)

\* C17 witness: a key was regenerated for a hive that shares its name with
\* another hive.
C17_Witness ==
    /\ resp.op = "regenerateKey" /\ resp.status = 200
    /\ \E h \in HiveIds \ {resp.id} : hives[h].name = hives[resp.id].name
    /\ hives[resp.id].api_key = resp.api_key

\* C18 (as claimed): a rename with an absent, empty or whitespace-only name
\* is answered 400, a rename of an unknown id with a valid name 404, and in
\* both cases no hive changes.
C18_RenameValidation ==
    [][(Responded /\ resp'.op = "putHive" /\ resp'.tok = "operator")
        => /\ resp'.name \in {ABSENT, "", "  "}
                => (resp'.status = 400 /\ hives' = hives)
           /\ (resp'.name \notin {ABSENT, "", "  "} /\ resp'.id \notin HiveIds)
                => (resp'.status = 404 /\ hives' = hives)]_vars

----------------------------------------------------------------------------
(* Properties of the relay control *)

\* the step is one evaluation of controlRelay
ControlStep == dpc = "control" /\ dpc' # "control"

\* C5: controlRelay implements the two-state machine: CONNECTED goes to
\* DISCONNECTED iff enabled and voltage < disconnect; DISCONNECTED goes to
\* CONNECTED iff voltage > reconnect or not enabled; otherwise no change.
\* The relay starts CONNECTED.
C5_RelayMachine ==
    [][ControlStep =>
          /\ (relayState /\ ~relayState') <=> (relayState /\ lvdEnabled /\ voltage < disconnectVoltage)
          /\ (~relayState /\ relayState') <=> (~relayState /\ (voltage > reconnectVoltage \/ ~lvdEnabled))]_vars

\* C5 witness: the relay is DISCONNECTED after a sample below the disconnect
\* threshold with LVD enabled, under thresholds fetched from the server.
C5_Witness ==
    /\ dpc = "loop" /\ ~relayState /\ lvdEnabled
    /\ voltage < disconnectVoltage
    /\ disconnectVoltage # 330

\* C6: with LVD enabled and disconnect < reconnect, a sample inside the dead
\* band (disconnect <= v <= reconnect) never changes the relay state.
C6_NoChatter ==
    [][(/\ ControlStep
        /\ lvdEnabled
        /\ disconnectVoltage < reconnectVoltage
        /\ disconnectVoltage <= voltage /\ voltage <= reconnectVoltage)
        => relayState' = relayState]_vars

\* C6 witness: the relay stayed DISCONNECTED through a sample strictly
\* inside the dead band.
C6_Witness ==
    /\ dpc = "loop" /\ ~relayState /\ lvdEnabled
    /\ disconnectVoltage < voltage /\ voltage < reconnectVoltage

\* the policy the controller holds
CachedPolicy ==
    [disconnect_volt |-> disconnectVoltage, reconnect_volt |-> reconnectVoltage,
     lvd_enabled |-> lvdEnabled]

\* C30 (as claimed): policy propagation to the device.  The cached policy
\* changes only to a policy the store answers; once the updates have ended
\* and status POSTs keep succeeding, the cached policy is from some point on
\* the stored policy, and it no longer changes.
C30_PolicyPropagates ==
    /\ [][CachedPolicy' # CachedPolicy => CachedPolicy' \in PolicyRows(settings)]_vars
    /\ <>[](CachedPolicy \in PolicyRows(settings))
    /\ <>[][CachedPolicy' = CachedPolicy]_vars

\* C29 (as claimed): regenerate-key always works for an existing hive.  The
\* UPDATE of an authenticated regenerate-key for an existing hive answers
\* 200 with a key <lowercased name>_<suffix>, the key is stored as the
\* api_key of the hive and no other hive holds it.
C29_RegenerateAlwaysWorks ==
    [][\A p \in Operators :
          (put[p].pc = "regen" /\ put'[p].pc = "idle") =>
              /\ resp'.status = 200
              /\ \E rnd \in RandomSuffixes :
                    resp'.api_key = toLowerCase(put[p].name) \o "_" \o rnd
              /\ hives'[put[p].id].api_key = resp'.api_key
              /\ \A h \in HiveIds \ {put[p].id} :
                    hives'[h].api_key # resp'.api_key]_vars

\* C28 (as claimed): read-your-writes for the policy.  While the 200 answer
\* of a PUT /lvd/settings is the latest answer of the server (every applied
\* update answers, so no later update has been applied), a read of the
\* policy, by GET /lvd/settings or by the echo to the controller, returns
\* the settings of that answer.
C28_ReadYourWrites ==
    [][(/\ PolicyRead
        /\ resp'.op \in {"getSettings", "postLvd"}
        /\ resp.op = "putSettings" /\ resp.status = 200)
        => resp'.policy \in resp.settings]_vars

----------------------------------------------------------------------------
(* Properties of the LVD readings *)

\* round((v - 3.0) / 1.2 * 100), ties up, clamped to [0, 100], for a
\* voltage in hundredths of a volt
ClaimedPercent(v) ==
    IF v <= 300 THEN 0
    ELSE IF v >= 420 THEN 100
    ELSE ((v - 300) * 10 + 6) \div 12

\* C26 (as claimed): every row of the LVD readings has its voltage in
\* [0, 5] and its percent equal to round((voltage - 3.0) / 1.2 * 100)
\* clamped to [0, 100]; a POST /lvd whose voltage is missing, not a number
\* or outside [0, 5] is answered 400 and stores nothing.
C26_LvdReadingInvariant ==
    [][/\ \A i \in DOMAIN lvdReadings' :
             /\ lvdReadings'[i].battery_voltage >= 0
             /\ lvdReadings'[i].battery_voltage <= 500
             /\ lvdReadings'[i].battery_percent
                   = ClaimedPercent(lvdReadings'[i].battery_voltage)
       /\ (/\ Responded /\ resp'.op = "postLvd"
           /\ \/ resp'.req.voltage.kind # "num"
              \/ resp'.req.voltage.v < 0
              \/ resp'.req.voltage.v > 500)
          => (resp'.status = 400 /\ lvdReadings' = lvdReadings)]_vars

\* C27 (as claimed): a device-facing ingestion call that is not answered
\* 200, the 500 of a failed storage query included, leaves the readings
\* tables as they were.
C27_NonSuccessStoresNothing ==
    [][(/\ Responded
        /\ resp'.op \in {"receive", "postLvd"}
        /\ resp'.status # 200)
        => (readings' = readings /\ lvdReadings' = lvdReadings)]_vars

----------------------------------------------------------------------------
(* Properties of the public queries *)

\* the row of hive h for a caller without a valid token, with latest
\* reading i: no part of it depends on an api_key
PublicRow(h, i) ==
    [id |-> h, name |-> hives[h].name, latest |-> i, is_online |-> IsOnline(i)]

\* the step answers 200 to a query of a caller without a valid token
PublicResponse(op) ==
    /\ Responded
    /\ resp'.op = op
    /\ resp'.status = 200
    /\ resp'.tok # "operator"

\* C25: the answer of GET /api/hives and GET /api/hives/:id to a caller
\* without a valid token carries no api_key and is determined by the store
\* without its api_key values; so is the answer of GET /api/readings.
C25_KeyConfidential ==
    [][/\ PublicResponse("getHives")
          => /\ DOMAIN resp'.hives = ActiveHives
             /\ \A h \in DOMAIN resp'.hives :
                   resp'.hives[h] = PublicRow(h, resp'.hives[h].latest)
       /\ PublicResponse("getHive")
          => resp'.hive = PublicRow(resp'.id, resp'.hive.latest)
       /\ PublicResponse("listReadings")
          => \A k \in DOMAIN resp'.readings :
                resp'.readings[k] =
                    [id |-> resp'.readings[k].id,
                     hive_name |-> hives[readings[resp'.readings[k].id].hive_id].name]]_vars

\* C25 witness: the hive list was answered to a caller with a forged token
\* after the key of a hive was regenerated, without any api_key.
C25_Witness ==
    /\ resp.op = "getHives" /\ resp.tok = "forged"
    /\ \E h \in HiveIds : hives[h].api_key # SeedKey(h)
    /\ \A h \in DOMAIN resp.hives : "api_key" \notin DOMAIN resp.hives[h]
    /\ readings # <<>>

----------------------------------------------------------------------------
(* Properties of the registration *)

\* the request carries the setup key the server is configured with
CarriesSetupKey(req) ==
    /\ SETUP_KEY # ABSENT
    /\ req.setupKey = SETUP_KEY

\* C24 (as claimed): once a user exists, a register request that does not
\* carry the configured SETUP_KEY is answered 403 and no step of it changes
\* the users table, whether or not SETUP_KEY is configured.
C24_RegistrationGate ==
    [][(/\ Responded /\ resp'.op = "register"
        /\ users # <<>>
        /\ ~CarriesSetupKey(resp'.req))
        => (resp'.status = 403 /\ users' = users)]_vars

----------------------------------------------------------------------------
(* Properties of the device loops *)

\* C23: whatever the outcome of a POST, both loops go on: connectWiFi
\* polls at most 30 times, and each device takes a sample again and again.
C23_LoopSurvives ==
    /\ [](attempts <= 30 /\ sensor.attempts <= 30)
    /\ []<><<\E v \in LoopVoltages : ReadBattery(v)>>_vars
    /\ []<><<\E ok \in BOOLEAN : SensorRead(ok)>>_vars

\* C23 witness: the sensor node is back at its next sample after a POST the
\* server rejected, while the controller has polled WiFi.status() 30 times
\* without a connection.
C23_Witness ==
    /\ sensor.pc = "read" /\ sensor.httpCode = "rejected"
    /\ dpc = "connect" /\ attempts = 30

====
